---- MODULE Spec2Model ----
(***************************************************************************)
(* Alpha AI: the conversation engine of src/alpha_ai.                      *)
(*                                                                         *)
(* The model covers conversation.py (ConversationEventBus, Conversation,   *)
(* ConversationManager) and the request handlers of server.py that drive   *)
(* it (chat, chat_stream, new_conversation, clear_conversation, lifespan). *)
(*                                                                         *)
(* The server is a single asyncio event loop: the code between two         *)
(* suspension points (an await that really suspends, or a yield of a       *)
(* streaming generator) runs atomically, and other requests run while a    *)
(* handler is suspended.  One action of the model is one such atomic       *)
(* section.  Conversation objects live on a heap (objs): a handler keeps   *)
(* the reference it read from the manager, also after the manager has made *)
(* another object current.                                                 *)
(***************************************************************************)
EXTENDS Integers, Sequences, FiniteSets, TLC

VARIABLES
    db,         \* the conversations table: row id -> row
    objs,       \* heap of Conversation objects: reference -> object
    cur,        \* conversation_manager.current_conversation (0 = None)
    listeners,  \* event_bus._listeners
    received,   \* per listener callback: the events it was invoked with
    reqs,       \* per request slot: the handler's position and locals
    turnSeq,    \* number of chat requests accepted so far (labels the turns)
    work,       \* budget spent: operations, turns, events and faults so far
    lastSave,   \* history variable: the most recent successful save
    lifespan,   \* where server.lifespan is: "startup", "serving" or "failed"
    agent_manager,  \* agent.py: the AlphaAgentManager instance and its calls
    event_store     \* database.py: the event tables and its ConversationManager

vars == <<db, objs, cur, listeners, received, reqs, turnSeq, work, lastSave,
          lifespan, agent_manager, event_store>>

\* what the request handlers of server.py and conversation.py leave alone
otherVars == <<lifespan, agent_manager, event_store>>

-----------------------------------------------------------------------------
(* Bounds of the model *)

\* every manager operation, restart, accepted chat request, generation event
\* and refused commit costs one unit of work
MaxWork == 3

\* request slots (requests in flight at once), callbacks that may subscribe,
\* in the order they do
Handlers == {"h1", "h2"}
Callbacks == <<"cb1", "cb2">>
\* references of the heap: the current conversation and one per handler
Refs == 1..(Cardinality(Handlers) + 1)
Models == {"openai:m"}
PromptNames == {"", "p.md"}
Contents == {"", "x"}

-----------------------------------------------------------------------------
(* Messages and their JSON form *)

SystemPromptPart(c) == [part_kind |-> "system-prompt", content |-> c]
UserPromptPart(c) == [part_kind |-> "user-prompt", content |-> c]
TextPart(c) == [part_kind |-> "text", content |-> c]
ToolCallPart(tool_name, args, tool_call_id) ==
    [part_kind |-> "tool-call", tool_name |-> tool_name, args |-> args,
     tool_call_id |-> tool_call_id]
ToolReturnPart(tool_name, content, tool_call_id) ==
    [part_kind |-> "tool-return", tool_name |-> tool_name, content |-> content,
     tool_call_id |-> tool_call_id]
ModelRequest(parts) == [kind |-> "request", parts |-> parts]
ModelResponse(parts) == [kind |-> "response", parts |-> parts]

\* the text a request carries; distinct per turn so that a turn can be
\* recognised in a history
UserMessage(t) == "u" \o ToString(t)

\* the content of /app/system_prompts/<name>
PromptFileContent(name) == "P:" \o name

\* a part in JSON: a tuple tagged with its part_kind
part_to_json(part) ==
    IF part.part_kind = "tool-call"
    THEN <<part.part_kind, part.tool_name, part.args, part.tool_call_id>>
    ELSE IF part.part_kind = "tool-return"
    THEN <<part.part_kind, part.tool_name, part.content, part.tool_call_id>>
    ELSE <<part.part_kind, part.content>>

\* part_from_json with the tag of the part ignored
part_from_json_untagged(j) == [part_kind |-> "text", content |-> j[2]]

\* the part a tagged tuple stands for
part_from_json(j) ==
    IF j[1] = "tool-call" THEN ToolCallPart(j[2], j[3], j[4])
    ELSE IF j[1] = "tool-return" THEN ToolReturnPart(j[2], j[3], j[4])
    ELSE [part_kind |-> j[1], content |-> j[2]]

\* to_jsonable_python + json.dumps: a message becomes a tagged pair, a part a
\* tagged tuple
to_json(history) ==
    [i \in 1..Len(history) |->
        <<history[i].kind,
          [k \in 1..Len(history[i].parts) |-> part_to_json(history[i].parts[k])]>>]

\* json.loads + ModelMessagesTypeAdapter.validate_python
validate_python(json) ==
    [i \in 1..Len(json) |->
        [kind |-> json[i][1],
         parts |-> [k \in 1..Len(json[i][2]) |-> part_from_json(json[i][2][k])]]]

\* result.new_messages() of a run: the request with the user's prompt and the
\* model's response
new_messages(t, text) ==
    <<ModelRequest(<<UserPromptPart(UserMessage(t))>>),
      ModelResponse(IF text = "" THEN <<>> ELSE <<TextPart(text)>>)>>

\* the turns whose user prompt is in a history
TurnsOf(history) ==
    {t \in 1..MaxWork :
        \E i \in 1..Len(history) :
            /\ history[i].kind = "request"
            /\ \E k \in 1..Len(history[i].parts) :
                  /\ history[i].parts[k].part_kind = "user-prompt"
                  /\ history[i].parts[k].content = UserMessage(t)}

-----------------------------------------------------------------------------
(* Conversation and the store *)

\* the version a freshly inserted row gets (the column default)
DefaultRowVersion == 1

\* Conversation.__init__
Conversation(id, model, system_prompt_filename) ==
    [id |-> id, model |-> model, system_prompt_filename |-> system_prompt_filename,
     history |-> <<>>, version |-> 1, agent |-> FALSE]

\* Conversation.from_db_model
from_db_model(db_model, id) ==
    [Conversation(id, db_model.model, db_model.system_prompt_filename) EXCEPT
        !.version = db_model.version,
        !.history = IF db_model.messages_json # <<>>
                    THEN validate_python(db_model.messages_json)
                    ELSE <<>>]

\* how the text stored in messages_json differs from what to_db_model wrote
\* (a row the program wrote itself is "none"): "empty" is the text "",
\* "truncated" a text cut short, which is not JSON, "not-a-list" the text "{}"
Damage(db_model) ==
    IF "damage" \in DOMAIN db_model THEN db_model.damage ELSE "none"

\* Conversation.from_db_model raises: json.loads (JSONDecodeError) or
\* validate_python (ValidationError); an empty text is not looked at
from_db_model_raises(db_model) == Damage(db_model) \in {"truncated", "not-a-list"}

\* Conversation.create_new
create_new(model, system_prompt_filename, system_prompt_content) ==
    [Conversation(0, model, system_prompt_filename) EXCEPT
        !.history = IF system_prompt_content # ""
                    THEN <<ModelRequest(<<SystemPromptPart(system_prompt_content)>>)>>
                    ELSE <<>>]

\* Conversation.dispose_agent
dispose_agent(conv) == [conv EXCEPT !.agent = FALSE]

\* the primary key the table gives the next inserted row
NextId(dbX) == Cardinality(DOMAIN dbX) + 1

\* Conversation.to_db_model: the table as it is once the session is committed
to_db_model(conv, dbX) ==
    IF conv.id # 0
    THEN [dbX EXCEPT ![conv.id] =
            [model |-> conv.model,
             system_prompt_filename |-> conv.system_prompt_filename,
             messages_json |-> to_json(conv.history),
             version |-> conv.version + 1]]
    ELSE dbX @@ (NextId(dbX) :>
            [model |-> conv.model,
             system_prompt_filename |-> conv.system_prompt_filename,
             messages_json |-> to_json(conv.history),
             version |-> DefaultRowVersion])

\* ConversationManager.save_current on heap objsX, table dbX and current
\* reference c; dbOk is whether the database accepts the commit.
\* raised: an exception leaves save_current.
save_current(objsX, dbX, c, dbOk) ==
    IF c = 0
    THEN [raised |-> FALSE, saved |-> FALSE, objs |-> objsX, db |-> dbX, log |-> lastSave]
    ELSE IF (objsX[c].id # 0 /\ objsX[c].id \notin DOMAIN dbX) \/ ~dbOk
    THEN [raised |-> TRUE, saved |-> FALSE, objs |-> objsX, db |-> dbX, log |-> lastSave]
    ELSE LET conv == objsX[c]
             rid == IF conv.id # 0 THEN conv.id ELSE NextId(dbX)
             newdb == to_db_model(conv, dbX)
         IN [raised |-> FALSE, saved |-> TRUE,
             objs |-> [objsX EXCEPT ![c].id = rid],
             db |-> newdb,
             log |-> [id |-> rid,
                      old |-> IF conv.id # 0 THEN dbX[conv.id].version ELSE 0,
                      new |-> newdb[rid].version,
                      mem |-> conv.version]]

-----------------------------------------------------------------------------
(* The heap: an object lives while the manager or a handler refers to it *)

Live(curX, reqsX) == ({curX} \cup {reqsX[h].conv : h \in Handlers}) \ {0}

\* the heap without the objects nothing refers to any more
Collect(objsX, curX, reqsX) ==
    [o \in DOMAIN objsX \cap Live(curX, reqsX) |-> objsX[o]]

\* the reference a new object gets once the manager has dropped curX
NewRef(objsX, reqsX) ==
    CHOOSE o \in Refs :
        /\ o \notin Live(0, reqsX)
        /\ \A q \in Refs : q \notin Live(0, reqsX) => o <= q

-----------------------------------------------------------------------------
(* Initial state: the module-level instances, started on an empty store *)

NoEvent == [type |-> "", conversation_id |-> 0, new_messages |-> <<>>]

Idle == [pc |-> "idle", kind |-> "none", conv |-> 0, turn |-> 0,
         log |-> <<>>, idx |-> 0, text |-> "", events |-> <<>>, ev |-> NoEvent]

NoSave == [id |-> 0, old |-> 0, new |-> 0, mem |-> 0]

\* AlphaAgentManager.__init__ with settings.model, before initialize
NoAgents ==
    [agents |-> <<>>, agent_contexts |-> <<>>, current_model |-> "openai:m",
     mcp_servers |-> FALSE, calls |-> <<>>]

\* database.py's tables, empty, and ConversationManager.__init__
NoEvents ==
    [conversations |-> <<>>, events |-> <<>>,
     current_conversation_id |-> 0, event_position |-> 0]

Init ==
    /\ db = <<>>
    /\ objs = <<>>
    /\ cur = 0
    /\ listeners = <<>>
    /\ received = [cb \in {Callbacks[i] : i \in 1..Len(Callbacks)} |-> <<>>]
    /\ reqs = [h \in Handlers |-> Idle]
    /\ turnSeq = 0
    /\ work = 0
    /\ lastSave = NoSave
    /\ lifespan = "serving"
    /\ agent_manager = NoAgents
    /\ event_store = NoEvents

-----------------------------------------------------------------------------
(* What a handler did, in order: the frames it sent and its effects *)

Entry(type, content) == [type |-> type, content |-> content]
Note(type) == Entry(type, "")

Types(log) == {log[i].type : i \in 1..Len(log)}
Count(log, type) == Cardinality({i \in 1..Len(log) : log[i].type = type})
Pos(log, type) == CHOOSE i \in 1..Len(log) : log[i].type = type

FrameTypes == {"start", "text_delta", "tool_call", "tool_return", "done", "error"}
IsFrame(e) == e.type \in FrameTypes
Frames(log) == SelectSeq(log, IsFrame)

-----------------------------------------------------------------------------
(* Budgets of the model *)

\* a step that costs n units
Work(n) ==
    /\ work + n <= MaxWork
    /\ work' = work + n

B2N(b) == IF b THEN 1 ELSE 0

-----------------------------------------------------------------------------
(* Event bus *)

\* ConversationEventBus.subscribe
Subscribe ==
    /\ Len(listeners) < Len(Callbacks)
    /\ listeners' = Append(listeners, Callbacks[Len(listeners) + 1])
    /\ UNCHANGED <<db, objs, cur, received, reqs, turnSeq, work, lastSave>>

-----------------------------------------------------------------------------
(* Conversation manager operations; each runs without suspending *)

\* NewConversation without the save of the conversation that was active
NewConversation_noSave(model, prompt_name, fileExists, dbOk1, dbOk2) ==
    LET content == IF prompt_name # "" /\ fileExists
                   THEN PromptFileContent(prompt_name) ELSE ""
        s1 == save_current(objs, db, 0, dbOk1)
        objs1 == IF cur # 0 THEN [s1.objs EXCEPT ![cur] = dispose_agent(@)] ELSE s1.objs
        o == NewRef(objs1, reqs)
        objs2 == (o :> create_new(model, prompt_name, content)) @@ objs1
        s2 == save_current(objs2, s1.db, o, dbOk2)
    IN /\ IF s1.raised
          THEN /\ dbOk2
               /\ Work(2)
               /\ UNCHANGED <<db, objs, cur, lastSave>>
          ELSE /\ cur = 0 => dbOk1
               /\ Work(1 + B2N(s2.raised))
               /\ cur' = o
               /\ objs' = Collect(s2.objs, o, reqs)
               /\ db' = s2.db
               /\ lastSave' = s2.log
       /\ UNCHANGED <<listeners, received, reqs, turnSeq>>

\* server.new_conversation -> ConversationManager.create_new_conversation
NewConversation(model, prompt_name, fileExists, dbOk1, dbOk2) ==
    LET content == IF prompt_name # "" /\ fileExists
                   THEN PromptFileContent(prompt_name) ELSE ""
        s1 == save_current(objs, db, cur, dbOk1)
        objs1 == IF cur # 0 THEN [s1.objs EXCEPT ![cur] = dispose_agent(@)] ELSE s1.objs
        o == NewRef(objs1, reqs)
        objs2 == (o :> create_new(model, prompt_name, content)) @@ objs1
        s2 == save_current(objs2, s1.db, o, dbOk2)
    IN /\ IF s1.raised
          THEN /\ dbOk2
               /\ Work(2)
               /\ UNCHANGED <<db, objs, cur, lastSave>>
          ELSE /\ cur = 0 => dbOk1
               /\ Work(1 + B2N(s2.raised))
               /\ cur' = o
               /\ objs' = Collect(s2.objs, o, reqs)
               /\ db' = s2.db
               /\ lastSave' = s2.log
       /\ UNCHANGED <<listeners, received, reqs, turnSeq>>

\* the JSON body the chat tool of the MCP server posts to /conversation/new
mcp_new_request(model, system_prompt) ==
    [k \in {"model", "prompt"} |->
        IF k = "model" THEN model
        ELSE IF system_prompt # "" THEN system_prompt ELSE "none"]

\* request.get(key, default)
request_get(request, key, default) ==
    IF key \in DOMAIN request THEN request[key] ELSE default

\* the chat tool of the MCP server called with new_conversation=true: its
\* POST /conversation/new, as server.new_conversation reads it (the POST
\* /chat that follows is a chat request like any other)
McpNewConversation(model, system_prompt, fileExists, dbOk1, dbOk2) ==
    LET request == mcp_new_request(model, system_prompt)
    IN /\ model # ""
       /\ request_get(request, "model", "") # ""
       /\ NewConversation(request_get(request, "model", ""),
                          request_get(request, "system_prompt", ""),
                          fileExists, dbOk1, dbOk2)

\* SwitchTo without the save of the conversation that was active
SwitchTo_noSave(conversation_id, dbOk) ==
    LET s1 == save_current(objs, db, 0, dbOk)
        objs1 == IF cur # 0 THEN [s1.objs EXCEPT ![cur] = dispose_agent(@)] ELSE s1.objs
        o == NewRef(objs1, reqs)
    IN /\ cur = 0 => dbOk
       /\ Work(1 + B2N(s1.raised))
       /\ IF s1.raised
          THEN UNCHANGED <<db, objs, cur, lastSave>>
          ELSE /\ db' = s1.db
               /\ lastSave' = s1.log
               /\ IF conversation_id \in DOMAIN s1.db
                  THEN /\ objs' = Collect((o :> from_db_model(s1.db[conversation_id], conversation_id)) @@ objs1,
                                        o, reqs)
                       /\ cur' = o
                  ELSE /\ objs' = objs1
                       /\ cur' = cur
       /\ UNCHANGED <<listeners, received, reqs, turnSeq>>

\* ConversationManager.switch_to: the save, then the lookup (ValueError when
\* there is no such row) and from_db_model (which may raise), then the install
SwitchTo(conversation_id, dbOk) ==
    LET s1 == save_current(objs, db, cur, dbOk)
        objs1 == IF cur # 0 THEN [s1.objs EXCEPT ![cur] = dispose_agent(@)] ELSE s1.objs
        o == NewRef(objs1, reqs)
    IN /\ cur = 0 => dbOk
       /\ Work(1 + B2N(s1.raised))
       /\ IF s1.raised
          THEN UNCHANGED <<db, objs, cur, lastSave>>
          ELSE /\ db' = s1.db
               /\ lastSave' = s1.log
               /\ IF /\ conversation_id \in DOMAIN s1.db
                     /\ ~from_db_model_raises(s1.db[conversation_id])
                  THEN /\ objs' = Collect((o :> from_db_model(s1.db[conversation_id], conversation_id)) @@ objs1,
                                        o, reqs)
                       /\ cur' = o
                  ELSE /\ objs' = objs1
                       /\ cur' = cur
       /\ UNCHANGED <<listeners, received, reqs, turnSeq>>

\* server.clear_conversation
ClearConversation(fileExists, dbOk) ==
    LET name == objs[cur].system_prompt_filename
        seeded == IF name # "" /\ fileExists
                  THEN <<ModelRequest(<<SystemPromptPart(PromptFileContent(name))>>)>>
                  ELSE <<>>
        objs1 == [objs EXCEPT ![cur] = [dispose_agent(@) EXCEPT !.history = seeded]]
        s == save_current(objs1, db, cur, dbOk)
    IN /\ cur # 0
       /\ Work(1 + B2N(s.raised))
       /\ objs' = s.objs
       /\ db' = s.db
       /\ lastSave' = s.log
       /\ UNCHANGED <<cur, listeners, received, reqs, turnSeq>>

\* the highest row id: the row created last
LastRow(dbX) == CHOOSE r \in DOMAIN dbX : \A q \in DOMAIN dbX : q <= r

\* the process stops and starts again: server.lifespan ->
\* ConversationManager.load_most_recent
Restart ==
    /\ Work(1)
    /\ objs' = IF DOMAIN db # {} THEN <<from_db_model(db[LastRow(db)], LastRow(db))>> ELSE <<>>
    /\ cur' = IF DOMAIN db # {} THEN 1 ELSE 0
    /\ listeners' = <<>>
    /\ received' = [cb \in {Callbacks[i] : i \in 1..Len(Callbacks)} |-> <<>>]
    /\ reqs' = [h \in Handlers |-> Idle]
    /\ UNCHANGED <<db, turnSeq, lastSave>>

-----------------------------------------------------------------------------
(* The events of a run, and the values they carry *)

\* a Python value: its type and its text (str(value))
Py(type, repr) == [type |-> type, repr |-> repr]

\* json.loads: the decoded value, or JSONDecodeError
json_loads(text) ==
    IF text = "{}" THEN [ok |-> TRUE, value |-> Py("dict", "{}")]
    ELSE IF text = "[1]" THEN [ok |-> TRUE, value |-> Py("list", "[1]")]
    ELSE IF text = "7" THEN [ok |-> TRUE, value |-> Py("int", "7")]
    ELSE IF text = "null" THEN [ok |-> TRUE, value |-> Py("NoneType", "None")]
    ELSE [ok |-> FALSE, value |-> Py("NoneType", "None")]

\* str(value)
py_str(value) == value.repr

\* {"value": text}
ValueDict(text) == Py("dict", "{value: " \o text \o "}")

\* the args of a tool_call notification, from the args of the ToolCallPart
normalize_args(args) ==
    IF args.type = "str"
    THEN IF json_loads(args.repr).ok
         THEN json_loads(args.repr).value
         ELSE ValueDict(args.repr)
    ELSE IF args.type # "dict"
    THEN ValueDict(py_str(args))
    ELSE args

\* the generation events the generator acts on: text (the initial content of
\* a started TextPart, or a TextPartDelta), FunctionToolCallEvent,
\* FunctionToolResultEvent
TextEvent(c) == [kind |-> "text", content |-> c]
ToolCallEvent(part) == [kind |-> "tool_call", part |-> part]
ToolResultEvent(result) == [kind |-> "tool_result", result |-> result]

\* the frames of the tool events
ToolCallFrame(tool_name, args, tool_call_id) ==
    [type |-> "tool_call", content |-> "", tool_name |-> tool_name, args |-> args,
     tool_call_id |-> tool_call_id]
ToolReturnFrame(tool_call_id, content) ==
    [type |-> "tool_return", content |-> content, tool_call_id |-> tool_call_id]

\* agent_run.result.new_messages() of a run whose events were evs: the
\* request with the user's prompt, then the responses of the model (the text
\* of a response joined in one TextPart, its tool calls) and the requests
\* that carry the tool returns, in the order the run produced them
RECURSIVE run_messages(_, _)
run_messages(t, evs) ==
    IF evs = <<>>
    THEN <<ModelRequest(<<UserPromptPart(UserMessage(t))>>), ModelResponse(<<>>)>>
    ELSE LET msgs == run_messages(t, SubSeq(evs, 1, Len(evs) - 1))
             e == evs[Len(evs)]
             n == Len(msgs)
             np == Len(msgs[n].parts)
         IN IF e.kind = "text"
            THEN IF e.content = ""
                 THEN msgs
                 ELSE IF msgs[n].kind # "response"
                 THEN Append(msgs, ModelResponse(<<TextPart(e.content)>>))
                 ELSE IF np > 0 /\ msgs[n].parts[np].part_kind = "text"
                 THEN [msgs EXCEPT ![n].parts[np].content = @ \o e.content]
                 ELSE [msgs EXCEPT ![n].parts = Append(@, TextPart(e.content))]
            ELSE IF e.kind = "tool_call"
            THEN IF msgs[n].kind = "response"
                 THEN [msgs EXCEPT ![n].parts = Append(@, e.part)]
                 ELSE Append(msgs, ModelResponse(<<e.part>>))
            ELSE IF msgs[n].kind = "request"
                 THEN [msgs EXCEPT ![n].parts = Append(@, e.result)]
                 ELSE Append(msgs, ModelRequest(<<e.result>>))

-----------------------------------------------------------------------------
(* POST /chat: server.chat -> Conversation.chat *)

\* Conversation.ensure_agent, when it does not raise
ensure_agent(conv) == [conv EXCEPT !.agent = TRUE]

\* ensure_agent raises only while it creates the agent (_create_model)
AgentRaises(conv, agentOk) == ~conv.agent /\ ~agentOk

\* a slot is free before its first request and once its response is over;
\* requests take the free slots in order
Free(h) == reqs[h].pc \in {"idle", "finished"}
FreeSlot(h) ==
    /\ Free(h)
    /\ IF h = "h1" THEN TRUE ELSE ~Free("h1")

\* the request arrives: get_current, ensure_agent, agent.run is awaited
ChatStart(h, agentOk) ==
    /\ FreeSlot(h)
    /\ cur # 0
    /\ Work(1)
    /\ turnSeq' = turnSeq + 1
    /\ objs[cur].agent => agentOk
    /\ IF ~AgentRaises(objs[cur], agentOk)
       THEN /\ reqs' = [reqs EXCEPT ![h] =
                  [Idle EXCEPT !.pc = "running", !.kind = "chat", !.conv = cur,
                               !.turn = turnSeq + 1]]
            /\ objs' = Collect([objs EXCEPT ![cur] = ensure_agent(@)], cur, reqs')
       ELSE /\ reqs' = [reqs EXCEPT ![h] =
                  [Idle EXCEPT !.pc = "finished", !.kind = "chat", !.conv = cur,
                               !.turn = turnSeq + 1, !.log = <<Note("http_error")>>]]
            /\ objs' = Collect(objs, cur, reqs')
    /\ UNCHANGED <<db, cur, listeners, received, lastSave>>

\* ChatRunFail with the user's prompt left in the history
ChatRunFail_appends(h) ==
    /\ reqs[h].pc = "running"
    /\ reqs' = [reqs EXCEPT ![h].pc = "finished", ![h].log = Append(@, Note("http_error"))]
    /\ objs' = [objs EXCEPT ![reqs[h].conv].history =
                    Append(@, ModelRequest(<<UserPromptPart(UserMessage(reqs[h].turn))>>))]
    /\ UNCHANGED <<db, cur, listeners, received, turnSeq, work, lastSave>>

\* agent.run raises (provider or tool transport failure)
ChatRunFail(h) ==
    /\ reqs[h].pc = "running"
    /\ reqs' = [reqs EXCEPT ![h].pc = "finished", ![h].log = Append(@, Note("http_error"))]
    /\ UNCHANGED <<db, objs, cur, listeners, received, turnSeq, work, lastSave>>

\* models.ToolCall, models.ToolReturn
ToolCall(tool_name, args, tool_call_id) ==
    [tool_name |-> tool_name, args |-> args, tool_call_id |-> tool_call_id]
ToolReturn(tool_name, content, tool_call_id) ==
    [tool_name |-> tool_name, content |-> content, tool_call_id |-> tool_call_id]

\* ToolCall(...) raises: pydantic refuses args that are not a dict
ToolCall_raises(args) == args.type # "dict"

\* the parts of the messages of a run, each with the kind of its message
RECURSIVE run_parts(_)
run_parts(messages) ==
    IF messages = <<>> THEN <<>>
    ELSE [k \in 1..Len(messages[1].parts) |->
             [kind |-> messages[1].kind, part |-> messages[1].parts[k]]]
         \o run_parts(Tail(messages))

\* the loop of server.chat over the parts: a ToolCallPart of a response adds
\* [tool_call, None]; a ToolReturnPart of a request sets the second element
\* of every pair whose call has its tool_call_id
RECURSIVE tool_call_pairs(_)
tool_call_pairs(parts) ==
    IF parts = <<>> THEN <<>>
    ELSE LET tool_calls == tool_call_pairs(SubSeq(parts, 1, Len(parts) - 1))
             kind == parts[Len(parts)].kind
             part == parts[Len(parts)].part
         IN IF kind = "response" /\ part.part_kind = "tool-call"
            THEN Append(tool_calls,
                        [call |-> ToolCall(part.tool_name, normalize_args(part.args),
                                           part.tool_call_id),
                         returned |-> FALSE,
                         return |-> ToolReturn("", "", "")])
            ELSE IF kind = "request" /\ part.part_kind = "tool-return"
            THEN [i \in 1..Len(tool_calls) |->
                    IF tool_calls[i].call.tool_call_id = part.tool_call_id
                    THEN [tool_calls[i] EXCEPT
                            !.returned = TRUE,
                            !.return = ToolReturn(part.tool_name, py_str(part.content),
                                                  part.tool_call_id)]
                    ELSE tool_calls[i]]
            ELSE tool_calls

HasReturn(tc) == tc.returned

\* tool_calls_tuples with the calls that got no return kept
tool_calls_tuples_all(tool_calls) == tool_calls

\* [(tc[0], tc[1]) for tc in tool_calls if tc[1] is not None]
tool_calls_tuples(tool_calls) == SelectSeq(tool_calls, HasReturn)

\* what server.chat answers once the save is done: the ChatResponse with the
\* tool calls of result.new_messages() (None when there is none), or the
\* exception of a ToolCall that pydantic refuses
ChatResponse(messages) ==
    LET tool_calls == tool_call_pairs(run_parts(messages))
    IN IF \E i \in 1..Len(tool_calls) : ToolCall_raises(tool_calls[i].call.args)
       THEN Note("http_error")
       ELSE IF tool_calls_tuples(tool_calls) = <<>>
       THEN Note("response")
       ELSE [type |-> "response", content |-> "",
             tool_calls |-> tool_calls_tuples(tool_calls)]

\* ConversationEventBus.emit from listener idx on, and what follows it in
\* server.chat: the listener is invoked (and chat is suspended in it), or
\* emit returns and chat saves and answers.  r is the handler, objsX the heap.
EmitFrom(h, r, objsX, idx, dbOk) ==
    IF idx <= Len(listeners)
    THEN /\ received' = [received EXCEPT ![listeners[idx]] = Append(@, r.ev)]
         /\ reqs' = [reqs EXCEPT ![h] =
               [r EXCEPT !.pc = "emitting", !.idx = idx,
                         !.log = Append(@, Entry("deliver", listeners[idx]))]]
         /\ objs' = objsX
         /\ dbOk
         /\ UNCHANGED <<db, work, lastSave>>
    ELSE LET s == save_current(objsX, db, cur, dbOk)
         IN /\ Work(B2N(s.raised))
            /\ received' = received
            /\ objs' = s.objs
            /\ db' = s.db
            /\ lastSave' = s.log
            /\ reqs' = [reqs EXCEPT ![h] =
                  [r EXCEPT !.pc = "finished",
                            !.log = @ \o (IF s.raised
                                          THEN <<Note("save_failed"), Note("http_error")>>
                                          ELSE <<Note("save"),
                                                 ChatResponse(validate_python(r.ev.new_messages))>>)]]

\* ChatRunOk with the new messages put in front of the history
ChatRunOk_prepend(h, text, dbOk) ==
    LET r == reqs[h]
        msgs == new_messages(r.turn, text)
        objs1 == [objs EXCEPT ![r.conv].history = msgs \o @]
        ev == [type |-> "messages_added", conversation_id |-> objs[r.conv].id,
               new_messages |-> to_json(msgs)]
        r1 == [r EXCEPT !.text = text, !.ev = ev,
                        !.log = @ \o <<Note("append"), Note("publish")>>]
    IN /\ r.pc = "running"
       /\ EmitFrom(h, r1, objs1, 1, dbOk)
       /\ UNCHANGED <<cur, listeners, turnSeq>>

\* agent.run has the model call a tool, and has the tool return, while chat
\* is suspended in it
ChatToolCall(h, part) ==
    /\ reqs[h].pc = "running"
    /\ reqs' = [reqs EXCEPT ![h].events = Append(@, ToolCallEvent(part))]
    /\ UNCHANGED <<db, objs, cur, listeners, received, turnSeq, work, lastSave>>

ChatToolResult(h, result) ==
    /\ reqs[h].pc = "running"
    /\ reqs' = [reqs EXCEPT ![h].events = Append(@, ToolResultEvent(result))]
    /\ UNCHANGED <<db, objs, cur, listeners, received, turnSeq, work, lastSave>>

\* agent.run returns with the final text of the model: history.extend, then
\* event_bus.emit
ChatRunOk(h, text, dbOk) ==
    LET r == reqs[h]
        msgs == run_messages(r.turn, Append(r.events, TextEvent(text)))
        objs1 == [objs EXCEPT ![r.conv].history = @ \o msgs]
        ev == [type |-> "messages_added", conversation_id |-> objs[r.conv].id,
               new_messages |-> to_json(msgs)]
        r1 == [r EXCEPT !.text = text, !.ev = ev,
                        !.log = @ \o <<Note("append"), Note("publish")>>]
    IN /\ r.pc = "running"
       /\ EmitFrom(h, r1, objs1, 1, dbOk)
       /\ UNCHANGED <<cur, listeners, turnSeq>>

\* the listener chat is suspended in returns, or raises
ListenerReturn(h, ok, dbOk) ==
    LET r == reqs[h]
    IN /\ r.pc = "emitting"
       /\ IF ok
          THEN EmitFrom(h, r, objs, r.idx + 1, dbOk)
          ELSE /\ reqs' = [reqs EXCEPT ![h].pc = "finished",
                      ![h].log = @ \o <<Entry("listener_raised", listeners[r.idx]),
                                        Note("http_error")>>]
               /\ dbOk
               /\ UNCHANGED <<db, objs, received, work, lastSave>>
       /\ UNCHANGED <<cur, listeners, turnSeq>>

-----------------------------------------------------------------------------
(* POST /chat/stream: server.chat_stream and its generator *)

\* the endpoint function: get_current, return StreamingResponse(generate())
StreamOpen(h) ==
    /\ FreeSlot(h)
    /\ cur # 0
    /\ Work(1)
    /\ turnSeq' = turnSeq + 1
    /\ reqs' = [reqs EXCEPT ![h] =
          [Idle EXCEPT !.pc = "opened", !.kind = "stream", !.conv = cur,
                       !.turn = turnSeq + 1]]
    /\ objs' = Collect(objs, cur, reqs')
    /\ UNCHANGED <<db, cur, listeners, received, lastSave>>

\* generate() up to its first yield: ensure_agent, the start frame
StreamBegin(h, agentOk) ==
    LET r == reqs[h]
    IN /\ r.pc = "opened"
       /\ objs[r.conv].agent => agentOk
       /\ IF ~AgentRaises(objs[r.conv], agentOk)
          THEN /\ objs' = [objs EXCEPT ![r.conv] = ensure_agent(@)]
               /\ reqs' = [reqs EXCEPT ![h].pc = "started",
                      ![h].log = Append(@, Entry("start", objs[r.conv].model))]
          ELSE /\ objs' = objs
               /\ reqs' = [reqs EXCEPT ![h].pc = "finished",
                      ![h].log = Append(@, Note("error"))]
       /\ UNCHANGED <<db, cur, listeners, received, turnSeq, work, lastSave>>

\* generate() resumes: current_conv._agent.iter(message, message_history=history)
StreamIter(h) ==
    LET r == reqs[h]
    IN /\ r.pc = "started"
       /\ IF objs[r.conv].agent
          THEN reqs' = [reqs EXCEPT ![h].pc = "streaming"]
          ELSE reqs' = [reqs EXCEPT ![h].pc = "finished",
                                    ![h].log = Append(@, Note("error"))]
       /\ UNCHANGED <<db, objs, cur, listeners, received, turnSeq, work, lastSave>>

\* StreamPartStart with the initial content of the part not forwarded
StreamPartStart_dropInitial(h, c) ==
    LET r == reqs[h]
    IN /\ r.pc = "streaming"
       /\ Work(1)
       /\ reqs' = [reqs EXCEPT ![h].text = @ \o c,
                               ![h].events = IF c # "" THEN Append(@, TextEvent(c)) ELSE @]
       /\ UNCHANGED <<db, objs, cur, listeners, received, turnSeq, lastSave>>

\* a PartStartEvent of a TextPart with initial content c
StreamPartStart(h, c) ==
    LET r == reqs[h]
    IN /\ r.pc = "streaming"
       /\ Work(1)
       /\ reqs' = [reqs EXCEPT ![h].text = @ \o c,
                               ![h].events = IF c # "" THEN Append(@, TextEvent(c)) ELSE @,
                               ![h].log = IF c # "" THEN Append(@, Entry("text_delta", c)) ELSE @]
       /\ UNCHANGED <<db, objs, cur, listeners, received, turnSeq, lastSave>>

\* a PartDeltaEvent with a TextPartDelta of content c
StreamPartDelta(h, c) ==
    LET r == reqs[h]
    IN /\ r.pc = "streaming"
       /\ Work(1)
       /\ reqs' = [reqs EXCEPT ![h].text = @ \o c,
                               ![h].events = Append(@, TextEvent(c)),
                               ![h].log = Append(@, Entry("text_delta", c))]
       /\ UNCHANGED <<db, objs, cur, listeners, received, turnSeq, lastSave>>

\* a FunctionToolCallEvent of a tool-call node: the tool_call frame with the
\* normalised args (tool_name_map only feeds a name that is never sent)
StreamToolCall(h, part) ==
    /\ reqs[h].pc = "streaming"
    /\ reqs' = [reqs EXCEPT
          ![h].events = Append(@, ToolCallEvent(part)),
          ![h].log = Append(@, ToolCallFrame(part.tool_name, normalize_args(part.args),
                                             part.tool_call_id))]
    /\ UNCHANGED <<db, objs, cur, listeners, received, turnSeq, work, lastSave>>

\* a PartDeltaEvent with a ToolCallPartDelta: nothing is done with it
StreamToolArgsDelta(h) ==
    /\ reqs[h].pc = "streaming"
    /\ Work(1)
    /\ UNCHANGED <<db, objs, cur, listeners, received, reqs, turnSeq, lastSave>>

\* StreamToolResult with the tool_return frame put before the frame sent last
StreamToolResult_reordered(h, result) ==
    LET log == reqs[h].log
        frame == ToolReturnFrame(result.tool_call_id, py_str(result.content))
    IN /\ reqs[h].pc = "streaming"
       /\ reqs' = [reqs EXCEPT
             ![h].events = Append(@, ToolResultEvent(result)),
             ![h].log = SubSeq(log, 1, Len(log) - 1) \o <<frame, log[Len(log)]>>]
       /\ UNCHANGED <<db, objs, cur, listeners, received, turnSeq, work, lastSave>>

\* a FunctionToolResultEvent of a tool-call node: the tool_return frame
StreamToolResult(h, result) ==
    /\ reqs[h].pc = "streaming"
    /\ reqs' = [reqs EXCEPT
          ![h].events = Append(@, ToolResultEvent(result)),
          ![h].log = Append(@, ToolReturnFrame(result.tool_call_id, py_str(result.content)))]
    /\ UNCHANGED <<db, objs, cur, listeners, received, turnSeq, work, lastSave>>

\* StreamFail with a done frame sent after the error frame
StreamFail_thenDone(h) ==
    /\ reqs[h].pc = "streaming"
    /\ reqs' = [reqs EXCEPT ![h].pc = "finished",
                            ![h].log = @ \o <<Note("error"), Note("done")>>]
    /\ UNCHANGED <<db, objs, cur, listeners, received, turnSeq, work, lastSave>>

\* StreamFail with the text received so far committed to history
StreamFail_partial(h) ==
    /\ reqs[h].pc = "streaming"
    /\ reqs' = [reqs EXCEPT ![h].pc = "finished", ![h].log = Append(@, Note("error"))]
    /\ objs' = [objs EXCEPT ![reqs[h].conv].history =
                    @ \o new_messages(reqs[h].turn, reqs[h].text)]
    /\ UNCHANGED <<db, cur, listeners, received, turnSeq, work, lastSave>>

\* an exception while the run is walked: the except clause sends the error frame
StreamFail(h) ==
    /\ reqs[h].pc = "streaming"
    /\ reqs' = [reqs EXCEPT ![h].pc = "finished", ![h].log = Append(@, Note("error"))]
    /\ UNCHANGED <<db, objs, cur, listeners, received, turnSeq, work, lastSave>>

\* StreamCancel with the turn committed on the way out
StreamCancel_commit(h) ==
    /\ reqs[h].pc \in {"opened", "started", "streaming"}
    /\ reqs' = [reqs EXCEPT ![h].pc = "finished", ![h].log = Append(@, Note("cancelled"))]
    /\ objs' = [objs EXCEPT ![reqs[h].conv].history =
                    @ \o new_messages(reqs[h].turn, reqs[h].text)]
    /\ UNCHANGED <<db, cur, listeners, received, turnSeq, work, lastSave>>

\* the client disconnects while the generator is suspended: the generator is
\* closed by a BaseException, which the except clause does not catch
StreamCancel(h) ==
    /\ reqs[h].pc \in {"opened", "started", "streaming"}
    /\ reqs' = [reqs EXCEPT ![h].pc = "finished", ![h].log = Append(@, Note("cancelled"))]
    /\ UNCHANGED <<db, objs, cur, listeners, received, turnSeq, work, lastSave>>

\* StreamEnd with the done frame sent whatever the save did
StreamEnd_doneAnyway(h, dbOk) ==
    LET r == reqs[h]
        objs1 == [objs EXCEPT ![r.conv].history = @ \o run_messages(r.turn, r.events)]
        s == save_current(objs1, db, cur, dbOk)
    IN /\ r.pc = "streaming"
       /\ Work(B2N(s.raised))
       /\ objs' = s.objs
       /\ db' = s.db
       /\ lastSave' = s.log
       /\ reqs' = [reqs EXCEPT ![h].pc = "finished",
              ![h].log = @ \o (IF s.raised
                               THEN <<Note("append"), Note("save_failed"), Note("done")>>
                               ELSE <<Note("append"), Note("save"), Note("done")>>)]
       /\ UNCHANGED <<cur, listeners, received, turnSeq>>

\* the end node: history.extend(result.new_messages()), save_current, done frame
StreamEnd(h, dbOk) ==
    LET r == reqs[h]
        objs1 == [objs EXCEPT ![r.conv].history = @ \o run_messages(r.turn, r.events)]
        s == save_current(objs1, db, cur, dbOk)
    IN /\ r.pc = "streaming"
       /\ Work(B2N(s.raised))
       /\ objs' = s.objs
       /\ db' = s.db
       /\ lastSave' = s.log
       /\ reqs' = [reqs EXCEPT ![h].pc = "finished",
              ![h].log = @ \o (IF s.raised
                               THEN <<Note("append"), Note("save_failed"), Note("error")>>
                               ELSE <<Note("append"), Note("save"), Note("done")>>)]
       /\ UNCHANGED <<cur, listeners, received, turnSeq>>

-----------------------------------------------------------------------------

Next ==
    \/ Subscribe /\ UNCHANGED otherVars
    \/ \E m \in Models, p \in PromptNames, f \in BOOLEAN, ok1 \in BOOLEAN, ok2 \in BOOLEAN :
          NewConversation(m, p, f, ok1, ok2) /\ UNCHANGED otherVars
    \/ \E id \in 1..NextId(db), ok \in BOOLEAN : SwitchTo(id, ok) /\ UNCHANGED otherVars
    \/ \E f \in BOOLEAN, ok \in BOOLEAN : ClearConversation(f, ok) /\ UNCHANGED otherVars
    \/ Restart /\ UNCHANGED otherVars
    \/ \E h \in Handlers, a \in BOOLEAN : ChatStart(h, a) /\ UNCHANGED otherVars
    \/ \E h \in Handlers : ChatRunFail(h) /\ UNCHANGED otherVars
    \/ \E h \in Handlers, c \in Contents, ok \in BOOLEAN : ChatRunOk(h, c, ok) /\ UNCHANGED otherVars
    \/ \E h \in Handlers, r \in BOOLEAN, ok \in BOOLEAN : ListenerReturn(h, r, ok) /\ UNCHANGED otherVars
    \/ \E h \in Handlers : StreamOpen(h) /\ UNCHANGED otherVars
    \/ \E h \in Handlers, a \in BOOLEAN : StreamBegin(h, a) /\ UNCHANGED otherVars
    \/ \E h \in Handlers : StreamIter(h) /\ UNCHANGED otherVars
    \/ \E h \in Handlers, c \in Contents : StreamPartStart(h, c) /\ UNCHANGED otherVars
    \/ \E h \in Handlers, c \in Contents : StreamPartDelta(h, c) /\ UNCHANGED otherVars
    \/ \E h \in Handlers : StreamFail(h) /\ UNCHANGED otherVars
    \/ \E h \in Handlers : StreamCancel(h) /\ UNCHANGED otherVars
    \/ \E h \in Handlers, ok \in BOOLEAN : StreamEnd(h, ok) /\ UNCHANGED otherVars

Spec == Init /\ [][Next]_vars

-----------------------------------------------------------------------------
(* The manager operations with the MCP chat tool as a second client *)

\* the server's own endpoints for the manager operations, and the MCP tool's
\* request for a new conversation; no chat request is in flight
McpNext ==
    \/ \E m \in Models, p \in PromptNames, f \in BOOLEAN, ok1 \in BOOLEAN, ok2 \in BOOLEAN :
          McpNewConversation(m, p, f, ok1, ok2) /\ UNCHANGED otherVars
    \/ \E m \in Models, p \in PromptNames, f \in BOOLEAN, ok1 \in BOOLEAN, ok2 \in BOOLEAN :
          NewConversation(m, p, f, ok1, ok2) /\ UNCHANGED otherVars
    \/ \E id \in 1..NextId(db), ok \in BOOLEAN : SwitchTo(id, ok) /\ UNCHANGED otherVars
    \/ \E f \in BOOLEAN, ok \in BOOLEAN : ClearConversation(f, ok) /\ UNCHANGED otherVars
    \/ Restart /\ UNCHANGED otherVars

McpSpec == Init /\ [][McpNext]_vars

-----------------------------------------------------------------------------
(* One streaming turn with tools, on a conversation loaded at startup *)

\* the slot of the request, the text a text event carries, the ids and the
\* args of the tool calls the provider makes, the ids and the content of the
\* tool results that arrive
TurnHandlers == {"h1"}
TurnContents == {"Hel", "lo"}
CallIds == {"id1"}
ResultIds == {"id1", "id2"}
ArgPayloads == {Py("dict", "{}"), Py("str", "{}"), Py("str", "[1]"),
                Py("str", "oops"), Py("NoneType", "None")}
ResultContents == {Py("str", "ok")}
ToolName == "tool"

\* the store holds one conversation, created with a system prompt; lifespan
\* has loaded it, and chat_stream has accepted a request and returned its
\* StreamingResponse
TurnRow ==
    [model |-> "openai:m", system_prompt_filename |-> "p.md",
     messages_json |-> to_json(create_new("openai:m", "p.md", PromptFileContent("p.md")).history),
     version |-> DefaultRowVersion]

TurnInit ==
    /\ db = <<TurnRow>>
    /\ objs = <<from_db_model(TurnRow, 1)>>
    /\ cur = 1
    /\ listeners = <<>>
    /\ received = [cb \in {Callbacks[i] : i \in 1..Len(Callbacks)} |-> <<>>]
    /\ reqs = [h \in Handlers |->
                 IF h \in TurnHandlers
                 THEN [Idle EXCEPT !.pc = "opened", !.kind = "stream", !.conv = 1,
                                   !.turn = 1]
                 ELSE Idle]
    /\ turnSeq = 1
    /\ work = 1
    /\ lastSave = NoSave
    /\ lifespan = "serving"
    /\ agent_manager = NoAgents
    /\ event_store = NoEvents

\* the ids of the tool calls, of the tool results, that have arrived
CalledIds(h) ==
    {reqs[h].events[i].part.tool_call_id :
        i \in {k \in 1..Len(reqs[h].events) : reqs[h].events[k].kind = "tool_call"}}
ReturnedIds(h) ==
    {reqs[h].events[i].result.tool_call_id :
        i \in {k \in 1..Len(reqs[h].events) : reqs[h].events[k].kind = "tool_result"}}

\* the provider gives every tool call a fresh id, and every id gets at most
\* one result
TurnNext ==
    \/ \E h \in TurnHandlers, a \in BOOLEAN : StreamBegin(h, a) /\ UNCHANGED otherVars
    \/ \E h \in TurnHandlers : StreamIter(h) /\ UNCHANGED otherVars
    \/ \E h \in TurnHandlers, c \in TurnContents : StreamPartStart(h, c) /\ UNCHANGED otherVars
    \/ \E h \in TurnHandlers, c \in TurnContents : StreamPartDelta(h, c) /\ UNCHANGED otherVars
    \/ \E h \in TurnHandlers : StreamToolArgsDelta(h) /\ UNCHANGED otherVars
    \/ \E h \in TurnHandlers : \E id \in CallIds \ CalledIds(h), a \in ArgPayloads :
          StreamToolCall(h, ToolCallPart(ToolName, a, id)) /\ UNCHANGED otherVars
    \/ \E h \in TurnHandlers : \E id \in ResultIds \ ReturnedIds(h), c \in ResultContents :
          StreamToolResult(h, ToolReturnPart(ToolName, c, id)) /\ UNCHANGED otherVars
    \/ \E h \in TurnHandlers : StreamFail(h) /\ UNCHANGED otherVars
    \/ \E h \in TurnHandlers : StreamCancel(h) /\ UNCHANGED otherVars
    \/ \E h \in TurnHandlers, ok \in BOOLEAN : StreamEnd(h, ok) /\ UNCHANGED otherVars

TurnSpec == TurnInit /\ [][TurnNext]_vars

-----------------------------------------------------------------------------
(* One chat turn with tools, on a conversation loaded at startup *)

\* the ids of the tool calls the provider makes in the turn
ChatCallIds == {"id1", "id2"}

\* lifespan has loaded the stored conversation, and chat has accepted a
\* request and is suspended in agent.run
ChatTurnInit ==
    /\ db = <<TurnRow>>
    /\ objs = <<ensure_agent(from_db_model(TurnRow, 1))>>
    /\ cur = 1
    /\ listeners = <<>>
    /\ received = [cb \in {Callbacks[i] : i \in 1..Len(Callbacks)} |-> <<>>]
    /\ reqs = [h \in Handlers |->
                 IF h \in TurnHandlers
                 THEN [Idle EXCEPT !.pc = "running", !.kind = "chat", !.conv = 1,
                                   !.turn = 1]
                 ELSE Idle]
    /\ turnSeq = 1
    /\ work = 1
    /\ lastSave = NoSave
    /\ lifespan = "serving"
    /\ agent_manager = NoAgents
    /\ event_store = NoEvents

\* the provider gives every tool call a fresh id, and a call gets at most one
\* return, after it was made
ChatTurnNext ==
    \/ \E h \in TurnHandlers : \E id \in ChatCallIds \ CalledIds(h), a \in ArgPayloads :
          ChatToolCall(h, ToolCallPart(ToolName, a, id)) /\ UNCHANGED otherVars
    \/ \E h \in TurnHandlers : \E id \in CalledIds(h) \ ReturnedIds(h), c \in ResultContents :
          ChatToolResult(h, ToolReturnPart(ToolName, c, id)) /\ UNCHANGED otherVars
    \/ \E h \in TurnHandlers : ChatRunFail(h) /\ UNCHANGED otherVars
    \/ \E h \in TurnHandlers, c \in Contents, ok \in BOOLEAN :
          ChatRunOk(h, c, ok) /\ UNCHANGED otherVars

ChatTurnSpec == ChatTurnInit /\ [][ChatTurnNext]_vars

-----------------------------------------------------------------------------
(* Start-up on a store that is already there, and the requests that read *)

\* seq[start:] of Python
slice_from(seq, start) ==
    LET n == Len(seq)
        from == IF start < 0
                THEN (IF n + start > 0 THEN n + start ELSE 0)
                ELSE (IF start < n THEN start ELSE n)
    IN SubSeq(seq, from + 1, n)

\* "".join(texts)
RECURSIVE str_join(_)
str_join(texts) ==
    IF texts = <<>> THEN "" ELSE texts[1] \o str_join(Tail(texts))

\* models.ToolCall as get_conversation builds it
HistoryToolCall(part) ==
    [tool_name |-> part.tool_name,
     args |-> IF part.args.type = "dict" THEN part.args ELSE ValueDict(py_str(part.args)),
     tool_call_id |-> part.tool_call_id]

\* models.MessageWithToolCalls
MessageWithToolCalls(role, content, tool_calls) ==
    [role |-> role, content |-> content, tool_calls |-> tool_calls]

IsTextPart(part) == part.part_kind = "text"
IsToolCallPart(part) == part.part_kind = "tool-call"
IsPromptPart(part) == part.part_kind \in {"system-prompt", "user-prompt"}

\* the parts of a sequence mapped by the operator for their kind
RECURSIVE PromptMessages(_)
PromptMessages(parts) ==
    IF parts = <<>> THEN <<>>
    ELSE (IF parts[1].part_kind = "system-prompt"
          THEN <<MessageWithToolCalls("system", parts[1].content, <<>>)>>
          ELSE <<MessageWithToolCalls("user", parts[1].content, <<>>)>>)
         \o PromptMessages(Tail(parts))

RECURSIVE TextsOf(_)
TextsOf(parts) ==
    IF parts = <<>> THEN <<>> ELSE <<parts[1].content>> \o TextsOf(Tail(parts))

RECURSIVE ToolCallsOf(_)
ToolCallsOf(parts) ==
    IF parts = <<>> THEN <<>> ELSE <<HistoryToolCall(parts[1])>> \o ToolCallsOf(Tail(parts))

\* the loop of get_conversation over the messages it was given
RECURSIVE api_messages(_)
api_messages(history) ==
    IF history = <<>> THEN <<>>
    ELSE LET msg == history[1]
             text_parts == TextsOf(SelectSeq(msg.parts, IsTextPart))
             tool_calls == ToolCallsOf(SelectSeq(msg.parts, IsToolCallPart))
         IN (IF msg.kind = "request"
             THEN PromptMessages(SelectSeq(msg.parts, IsPromptPart))
             ELSE IF text_parts # <<>> \/ tool_calls # <<>>
             THEN <<MessageWithToolCalls("assistant", str_join(text_parts), tool_calls)>>
             ELSE <<>>)
            \o api_messages(Tail(history))

\* models.ConversationResponse(...): pydantic validates the fields, and model
\* is declared str
ConversationResponse(limit, messages, total_messages, model, system_prompt) ==
    IF model.type # "str"
    THEN [type |-> "http_error", content |-> "500", limit |-> limit]
    ELSE [type |-> "conversation", content |-> "", limit |-> limit,
          messages |-> messages, total_messages |-> total_messages,
          model |-> model.repr, system_prompt |-> system_prompt]

\* GET /conversation?limit=n
get_conversation(limit) ==
    IF cur = 0
    THEN ConversationResponse(limit, <<>>, 0, Py("NoneType", "None"), "")
    ELSE ConversationResponse(limit,
                              api_messages(slice_from(objs[cur].history, 0 - limit)),
                              Len(objs[cur].history),
                              Py("str", objs[cur].model),
                              objs[cur].system_prompt_filename)

\* server.get_conversation: it does not suspend
GetConversation(h, limit) ==
    /\ lifespan = "serving"
    /\ FreeSlot(h)
    /\ Work(1)
    /\ reqs' = [reqs EXCEPT ![h] =
          [Idle EXCEPT !.pc = "finished", !.kind = "get", !.conv = cur,
                       !.log = <<get_conversation(limit)>>]]
    /\ UNCHANGED <<db, objs, cur, listeners, received, turnSeq, lastSave, otherVars>>

\* server.chat and server.chat_stream while no conversation is active:
\* HTTPException(400) before anything else
ChatNoConversation_creates(h, kind) ==
    /\ lifespan = "serving"
    /\ FreeSlot(h)
    /\ cur = 0
    /\ Work(1)
    /\ objs' = <<create_new("openai:m", "", "")>>
    /\ cur' = 1
    /\ reqs' = [reqs EXCEPT ![h] =
          [Idle EXCEPT !.pc = "finished", !.kind = kind,
                       !.log = <<Entry("http_error", "400")>>]]
    /\ UNCHANGED <<db, listeners, received, turnSeq, lastSave, otherVars>>

ChatNoConversation(h, kind) ==
    /\ lifespan = "serving"
    /\ FreeSlot(h)
    /\ cur = 0
    /\ Work(1)
    /\ reqs' = [reqs EXCEPT ![h] =
          [Idle EXCEPT !.pc = "finished", !.kind = kind,
                       !.log = <<Entry("http_error", "400")>>]]
    /\ UNCHANGED <<db, objs, cur, listeners, received, turnSeq, lastSave, otherVars>>

\* the creation time of a row; the rows the running program inserts get the
\* time of the insert, which grows with the id
CreatedAt(dbX, r) ==
    IF "created_at" \in DOMAIN dbX[r] THEN dbX[r].created_at ELSE r

\* order_by(created_at.desc()).first(): a row with the latest creation time
MostRecent(dbX) ==
    {r \in DOMAIN dbX : \A q \in DOMAIN dbX : CreatedAt(dbX, q) <= CreatedAt(dbX, r)}

\* Lifespan with the row created first loaded
Lifespan_oldest ==
    /\ lifespan = "startup"
    /\ IF DOMAIN db = {}
       THEN /\ lifespan' = "serving"
            /\ UNCHANGED <<objs, cur>>
       ELSE \E r \in {x \in DOMAIN db :
                        \A q \in DOMAIN db : CreatedAt(db, x) <= CreatedAt(db, q)} :
               IF from_db_model_raises(db[r])
               THEN /\ lifespan' = "failed"
                    /\ UNCHANGED <<objs, cur>>
               ELSE /\ lifespan' = "serving"
                    /\ objs' = <<from_db_model(db[r], r)>>
                    /\ cur' = 1
    /\ UNCHANGED <<db, listeners, received, reqs, turnSeq, work, lastSave,
                   agent_manager, event_store>>

\* server.lifespan up to its yield: ConversationManager.load_most_recent; an
\* exception of from_db_model leaves lifespan and the application does not
\* start
Lifespan ==
    /\ lifespan = "startup"
    /\ IF DOMAIN db = {}
       THEN /\ lifespan' = "serving"
            /\ UNCHANGED <<objs, cur>>
       ELSE \E r \in MostRecent(db) :
               IF from_db_model_raises(db[r])
               THEN /\ lifespan' = "failed"
                    /\ UNCHANGED <<objs, cur>>
               ELSE /\ lifespan' = "serving"
                    /\ objs' = <<from_db_model(db[r], r)>>
                    /\ cur' = 1
    /\ UNCHANGED <<db, listeners, received, reqs, turnSeq, work, lastSave,
                   agent_manager, event_store>>

\* the histories of the stored conversations: the system prompt alone, and
\* the system prompt with one turn that called a tool
SeedHistory == create_new("openai:m", "p.md", PromptFileContent("p.md")).history
ToolTurnHistory ==
    SeedHistory \o
    run_messages(1, <<ToolCallEvent(ToolCallPart(ToolName, Py("str", "oops"), "id1")),
                      ToolResultEvent(ToolReturnPart(ToolName, Py("str", "ok"), "id1")),
                      TextEvent("x")>>)
StoredHistories == {SeedHistory, ToolTurnHistory}
BlobDamages == {"none", "empty", "truncated", "not-a-list"}
CreationTimes == {1, 2}
Limits == {0, 1, 2, 50}

\* a row of the conversations table as an earlier run left it, the text of
\* its messages_json damaged or not
StoredRow(history, damage, created_at) ==
    [model |-> "openai:m", system_prompt_filename |-> "p.md",
     messages_json |-> IF damage = "empty" THEN <<>> ELSE to_json(history),
     version |-> DefaultRowVersion + Len(history),
     created_at |-> created_at, damage |-> damage]

StoredRows ==
    {StoredRow(hist, d, t) : hist \in StoredHistories, d \in BlobDamages, t \in CreationTimes}

\* the tables hold up to two conversations
Stores == {<<>>} \cup {<<a>> : a \in StoredRows} \cup {<<a, b>> : a \in StoredRows, b \in StoredRows}

\* the process has been launched on a store; lifespan has not run yet
StoreInit ==
    /\ db \in Stores
    /\ objs = <<>>
    /\ cur = 0
    /\ listeners = <<>>
    /\ received = [cb \in {Callbacks[i] : i \in 1..Len(Callbacks)} |-> <<>>]
    /\ reqs = [h \in Handlers |-> Idle]
    /\ turnSeq = 0
    /\ work = 0
    /\ lastSave = NoSave
    /\ lifespan = "startup"
    /\ agent_manager = NoAgents
    /\ event_store = NoEvents

StoreNext ==
    \/ Lifespan
    \/ \E id \in 1..NextId(db), ok \in BOOLEAN :
          lifespan = "serving" /\ SwitchTo(id, ok) /\ UNCHANGED otherVars
    \/ \E h \in Handlers, n \in Limits : GetConversation(h, n)
    \/ \E h \in Handlers : ChatNoConversation(h, "chat")
    \/ \E h \in Handlers : ChatNoConversation(h, "stream")

StoreSpec == StoreInit /\ [][StoreNext]_vars

-----------------------------------------------------------------------------
(* agent.py: AlphaAgentManager *)

\* calls of initialize and set_model in a behaviour
MaxCalls == 4

\* the model strings a caller may pass; the ones model discovery lists
\* (settings.model is always among them)
AgentModels == {"openai:m", "ollama:q", "openrouter:x", "zzz"}
AvailableModels == {"openai:m", "ollama:q", "openrouter:x"}

\* AlphaAgentManager._parse_model_string: model.split(":", 1)
parse_model_string(model) ==
    IF model = "openai:m" THEN [ok |-> TRUE, provider |-> "openai"]
    ELSE IF model = "ollama:q" THEN [ok |-> TRUE, provider |-> "ollama"]
    ELSE IF model = "openrouter:x" THEN [ok |-> TRUE, provider |-> "openrouter"]
    ELSE [ok |-> FALSE, provider |-> ""]

\* the providers _create_agent has a branch for
SupportedProviders ==
    {"openai", "anthropic", "ollama", "groq", "google-gla", "google-vertex"}

\* a call of initialize or set_model: the model it is about, current_model
\* when it was made, where it is ("connecting": suspended in
\* agent.__aenter__), and whether the connection to the tool servers failed
AgentCall(op, model, before, pc) ==
    [op |-> op, model |-> model, before |-> before, pc |-> pc,
     connect_failed |-> FALSE]

\* get_or_create_agent(model) of call number k, on manager am, up to the
\* first suspension: the agent there is, or _create_agent up to __aenter__
get_or_create_agent(am, k, model) ==
    LET parsed == parse_model_string(model)
    IN IF model \in DOMAIN am.agents
       THEN [am EXCEPT !.calls[k].pc = "done"]
       ELSE IF ~parsed.ok \/ parsed.provider \notin SupportedProviders
       THEN [am EXCEPT !.calls[k].pc = "raised"]
       ELSE IF am.mcp_servers
       THEN [am EXCEPT !.calls[k].pc = "connecting"]
       ELSE [am EXCEPT !.calls[k].pc = "done",
                       !.agents = (model :> k) @@ @]

\* AlphaAgentManager.initialize: the MCP servers of the configuration (or
\* none), then the agent of current_model
AgentInitialize(mcp_servers) ==
    LET k == Len(agent_manager.calls) + 1
        am == [agent_manager EXCEPT
                 !.mcp_servers = mcp_servers,
                 !.calls = Append(@, AgentCall("initialize", agent_manager.current_model,
                                               agent_manager.current_model, "running"))]
    IN /\ agent_manager.calls = <<>>
       /\ k <= MaxCalls
       /\ UNCHANGED work
       /\ agent_manager' = get_or_create_agent(am, k, am.current_model)
       /\ UNCHANGED <<db, objs, cur, listeners, received, reqs, turnSeq, lastSave,
                      lifespan, event_store>>

\* initialize has returned
Initialized ==
    /\ agent_manager.calls # <<>>
    /\ agent_manager.calls[1].pc = "done"

\* AlphaAgentManager.set_model up to its first suspension
SetModel(model) ==
    LET k == Len(agent_manager.calls) + 1
        am == [agent_manager EXCEPT
                 !.calls = Append(@, AgentCall("set_model", model,
                                               agent_manager.current_model, "running"))]
    IN /\ Initialized
       /\ k <= MaxCalls
       /\ UNCHANGED work
       /\ agent_manager' =
             IF model \notin AvailableModels
             THEN [am EXCEPT !.calls[k].pc = "raised"]
             ELSE get_or_create_agent([am EXCEPT !.current_model = model], k, model)
       /\ UNCHANGED <<db, objs, cur, listeners, received, reqs, turnSeq, lastSave,
                      lifespan, event_store>>

\* AgentConnected with the exception of __aenter__ swallowed
AgentConnected_swallowed(k, ok) ==
    LET call == agent_manager.calls[k]
    IN /\ k \in DOMAIN agent_manager.calls
       /\ call.pc = "connecting"
       /\ agent_manager' =
             IF ok
             THEN [agent_manager EXCEPT
                     !.agent_contexts = (call.model :> k) @@ @,
                     !.agents = (call.model :> k) @@ @,
                     !.calls[k].pc = "done"]
             ELSE [agent_manager EXCEPT
                     !.agents = (call.model :> k) @@ @,
                     !.calls[k].pc = "done",
                     !.calls[k].connect_failed = TRUE]
       /\ UNCHANGED <<db, objs, cur, listeners, received, reqs, turnSeq, work, lastSave,
                      lifespan, event_store>>

\* _create_agent resumes from agent.__aenter__: the context and the agent
\* are stored, or the exception is raised again
AgentConnected(k, ok) ==
    LET call == agent_manager.calls[k]
    IN /\ k \in DOMAIN agent_manager.calls
       /\ call.pc = "connecting"
       /\ agent_manager' =
             IF ok
             THEN [agent_manager EXCEPT
                     !.agent_contexts = (call.model :> k) @@ @,
                     !.agents = (call.model :> k) @@ @,
                     !.calls[k].pc = "done"]
             ELSE [agent_manager EXCEPT
                     !.calls[k].pc = "raised",
                     !.calls[k].connect_failed = TRUE]
       /\ UNCHANGED <<db, objs, cur, listeners, received, reqs, turnSeq, work, lastSave,
                      lifespan, event_store>>

AgentNext ==
    \/ \E mcp \in BOOLEAN : AgentInitialize(mcp)
    \/ \E m \in AgentModels : SetModel(m)
    \/ \E k \in 1..MaxCalls, ok \in BOOLEAN : AgentConnected(k, ok)

AgentSpec == Init /\ [][AgentNext]_vars

-----------------------------------------------------------------------------
(* database.py: the event tables and their ConversationManager *)

\* rows of the two tables in a behaviour; the times the clock shows when a
\* conversation is inserted; the types of the events added
MaxConversations == 2
MaxEvents == 3
EventTimes == {1, 2}
EventTypes == {"user", "assistant"}

\* the events of one conversation, in the order they were inserted
EventsOf(es, c) ==
    LET IsEventOf(e) == e.conversation_id = c
    IN SelectSeq(es.events, IsEventOf)

\* order_by(Conversation.created_at.desc()).first()
LatestConversations(es) ==
    {c \in DOMAIN es.conversations :
        \A q \in DOMAIN es.conversations :
            es.conversations[q].created_at <= es.conversations[c].created_at}

\* order_by(ConversationEvent.position.desc()).first() of a conversation
\* that has events
LastPosition(es, c) ==
    CHOOSE p \in {EventsOf(es, c)[i].position : i \in 1..Len(EventsOf(es, c))} :
        \A i \in 1..Len(EventsOf(es, c)) : EventsOf(es, c)[i].position <= p

\* ConversationManager.start_new_conversation on store es at time t; dbOk is
\* whether the commit is accepted (otherwise it raises)
start_new_conversation(es, t, dbOk) ==
    IF dbOk
    THEN [es EXCEPT !.conversations = Append(@, [created_at |-> t]),
                    !.current_conversation_id = Len(es.conversations) + 1,
                    !.event_position = 0]
    ELSE es

\* ConversationManager.add_event
add_event(es, event_type, t, dbOk1, dbOk2) ==
    LET es1 == IF es.current_conversation_id = 0
               THEN start_new_conversation(es, t, dbOk1)
               ELSE es
    IN IF es1.current_conversation_id = 0 \/ ~dbOk2
       THEN es1
       ELSE [es1 EXCEPT
               !.events = Append(@, [conversation_id |-> es1.current_conversation_id,
                                     position |-> es1.event_position,
                                     event_type |-> event_type]),
               !.event_position = @ + 1]

\* get_current_conversation with the position of a resumed conversation set
\* to 0
get_current_conversation_fromZero(es, c) ==
    IF es.current_conversation_id = 0 /\ c \in DOMAIN es.conversations
    THEN [es EXCEPT !.current_conversation_id = c, !.event_position = 0]
    ELSE es

\* ConversationManager.get_current_conversation, c being the row the first
\* query returns when there is no current conversation
get_current_conversation(es, c) ==
    IF es.current_conversation_id = 0 /\ c \in DOMAIN es.conversations
    THEN [es EXCEPT !.current_conversation_id = c,
                    !.event_position = IF EventsOf(es, c) # <<>>
                                       THEN LastPosition(es, c) + 1 ELSE 0]
    ELSE es

\* clear_conversation with the events of the conversation it leaves deleted
clear_conversation_deletes(es, t, dbOk) ==
    start_new_conversation(
        [es EXCEPT !.events = LET IsOther(e) == e.conversation_id # es.current_conversation_id
                              IN SelectSeq(@, IsOther),
                   !.current_conversation_id = 0, !.event_position = 0],
        t, dbOk)

\* ConversationManager.clear_conversation
clear_conversation(es, t, dbOk) ==
    start_new_conversation(
        [es EXCEPT !.current_conversation_id = 0, !.event_position = 0], t, dbOk)

\* the calls a client of the manager makes
StartNewConversation(t, dbOk) ==
    /\ dbOk => Len(event_store.conversations) < MaxConversations
    /\ event_store' = start_new_conversation(event_store, t, dbOk)
    /\ UNCHANGED <<db, objs, cur, listeners, received, reqs, turnSeq, work, lastSave,
                      lifespan, agent_manager>>

AddEvent(event_type, t, dbOk1, dbOk2) ==
    /\ Len(event_store.events) < MaxEvents
    /\ event_store.current_conversation_id = 0 =>
          Len(event_store.conversations) < MaxConversations
    /\ event_store.current_conversation_id # 0 => dbOk1
    /\ event_store' = add_event(event_store, event_type, t, dbOk1, dbOk2)
    /\ UNCHANGED <<db, objs, cur, listeners, received, reqs, turnSeq, work, lastSave,
                      lifespan, agent_manager>>

GetCurrentConversation ==
    /\ IF event_store.conversations = <<>>
       THEN event_store' = get_current_conversation(event_store, 0)
       ELSE \E c \in LatestConversations(event_store) :
               event_store' = get_current_conversation(event_store, c)
    /\ UNCHANGED <<db, objs, cur, listeners, received, reqs, turnSeq, work, lastSave,
                      lifespan, agent_manager>>

ClearEvents(t, dbOk) ==
    /\ dbOk => Len(event_store.conversations) < MaxConversations
    /\ event_store' = clear_conversation(event_store, t, dbOk)
    /\ UNCHANGED <<db, objs, cur, listeners, received, reqs, turnSeq, work, lastSave,
                      lifespan, agent_manager>>

\* the process stops and starts again: the module-level ConversationManager()
\* is new, the tables are as they were
EventStoreRestart ==
    /\ event_store' = [event_store EXCEPT !.current_conversation_id = 0,
                                         !.event_position = 0]
    /\ UNCHANGED <<db, objs, cur, listeners, received, reqs, turnSeq, work, lastSave,
                      lifespan, agent_manager>>

EventNext ==
    \/ \E t \in EventTimes, ok \in BOOLEAN : StartNewConversation(t, ok)
    \/ \E ty \in EventTypes, t \in EventTimes, ok1 \in BOOLEAN, ok2 \in BOOLEAN :
          AddEvent(ty, t, ok1, ok2)
    \/ GetCurrentConversation
    \/ \E t \in EventTimes, ok \in BOOLEAN : ClearEvents(t, ok)
    \/ EventStoreRestart

EventSpec == Init /\ [][EventNext]_vars

-----------------------------------------------------------------------------
(* Properties *)

\* the history stored at rest in a row
AtRest(id) == from_db_model(db[id], id).history

\* turn t is in some stored history
Persisted(t) == \E id \in DOMAIN db : t \in TurnsOf(AtRest(id))

\* turn t is in the history of some conversation object
InMemory(t) == \E o \in DOMAIN objs : t \in TurnsOf(objs[o].history)

\* no conversation object that survives the step has its history changed by it
HistoriesKept ==
    \A o \in DOMAIN objs' : o \in DOMAIN objs /\ objs'[o].history = objs[o].history

TypeSeq(log) == [i \in 1..Len(log) |-> log[i].type]

\* C1: turn atomicity.  Every step of a streaming turn that has not reached
\* its commit (the steps that forward frames, and the step that ends the turn
\* with the error frame) leaves every history, in memory and at rest, and the
\* active reference as they were: a turn that fails before its event stream
\* has ended leaves the history as it was before the turn.
C1_TurnAtomicity ==
    [][\A h \in Handlers :
          (/\ reqs'[h] # reqs[h]
           /\ reqs'[h].kind = "stream"
           /\ "append" \notin Types(reqs'[h].log))
          => (HistoriesKept /\ db' = db /\ cur' = cur)]_vars

\* a stream Start, TextDelta, Error has been delivered
C1_Witness ==
    \E h \in Handlers :
        /\ reqs[h].kind = "stream"
        /\ reqs[h].pc = "finished"
        /\ TypeSeq(reqs[h].log) = <<"start", "text_delta", "error">>

\* C2: every successful save of a stored conversation increases its version
\* at rest by exactly 1, and the in-memory copy has the new version afterwards.
C2_VersionPlusOne ==
    lastSave.old # 0 =>
        /\ lastSave.new = lastSave.old + 1
        /\ lastSave.mem = lastSave.new

\* C3: no save succeeds while the version at rest is strictly greater than
\* the in-memory version of the conversation being saved.
C3_StaleSaveRejected ==
    lastSave.old # 0 => lastSave.old <= lastSave.mem

\* C4: while a chat turn is in flight (it has read the history for generation
\* and has not yet appended and saved), no step of anything else changes the
\* active conversation reference or a history in memory.
InFlight(h) == reqs[h].pc \in {"running", "emitting", "streaming"}

C4_MutualExclusion ==
    [][\A h \in Handlers :
          (InFlight(h) /\ reqs'[h] = reqs[h]) => (cur' = cur /\ HistoriesKept)]_vars

\* C5: a streaming turn persists nothing while it forwards generation events;
\* a turn that sent the done frame made exactly one save, which succeeded,
\* after its one append and after all its text frames, and sent done after it.
C5_SaveOncePerTurn ==
    \A h \in Handlers :
        LET r == reqs[h] IN
        r.kind = "stream" =>
            /\ Count(r.log, "save") + Count(r.log, "save_failed") <= 1
            /\ r.pc \in {"opened", "started", "streaming"} =>
                  /\ Types(r.log) \subseteq {"start", "text_delta"}
                  /\ ~Persisted(r.turn)
            /\ "done" \in Types(r.log) =>
                  /\ Count(r.log, "append") = 1
                  /\ Count(r.log, "save") = 1
                  /\ Count(r.log, "save_failed") = 0
                  /\ Pos(r.log, "append") < Pos(r.log, "save")
                  /\ Pos(r.log, "save") < Pos(r.log, "done")
                  /\ \A i \in 1..Len(r.log) :
                        r.log[i].type = "text_delta" => i < Pos(r.log, "append")

\* a streaming turn with a text frame has sent done
C5_Witness ==
    \E h \in Handlers :
        /\ reqs[h].kind = "stream"
        /\ {"text_delta", "done"} \subseteq Types(reqs[h].log)

\* C6: a streaming turn the caller cancelled has no message in any history in
\* memory and none at rest, and made no save.
C6_CancelLeavesHistory ==
    \A h \in Handlers :
        LET r == reqs[h] IN
        (r.kind = "stream" /\ "cancelled" \in Types(r.log)) =>
            /\ ~InMemory(r.turn)
            /\ ~Persisted(r.turn)
            /\ Types(r.log) \cap {"append", "save", "save_failed"} = {}

\* a streaming turn was cancelled after a text frame
C6_Witness ==
    \E h \in Handlers :
        /\ reqs[h].kind = "stream"
        /\ TypeSeq(reqs[h].log) = <<"start", "text_delta", "cancelled">>

\* C7: whenever no request is in flight, the history in memory of the active
\* conversation equals the history stored at rest for its id.
C7_MemoryEqualsRest ==
    (cur # 0 /\ \A h \in Handlers : Free(h)) =>
        /\ objs[cur].id \in DOMAIN db
        /\ objs[cur].history = AtRest(objs[cur].id)

\* C8: when a listener raises while it handles an event, emit still completes
\* (the publisher does not fail) and every subscriber has received the event.
C8_FailingSubscriberIsolated ==
    \A h \in Handlers :
        LET r == reqs[h] IN
        "listener_raised" \in Types(r.log) =>
            /\ "http_error" \notin Types(r.log)
            /\ \A i \in 1..Len(listeners) :
                  \E k \in 1..Len(received[listeners[i]]) :
                      received[listeners[i]][k] = r.ev

\* C9: every committed turn (appended and saved), streaming or not, has
\* published 'messages_added' on the event bus.
C9_CommittedTurnPublished ==
    \A h \in Handlers :
        {"append", "save"} \subseteq Types(reqs[h].log) =>
            "publish" \in Types(reqs[h].log)

\* C10: no 'messages_added' event of a turn is delivered to a listener before
\* the save of that turn's history has succeeded.
C10_PublishAfterPersist ==
    \A h \in Handlers :
        \A i \in 1..Len(reqs[h].log) :
            reqs[h].log[i].type = "deliver" =>
                \E j \in 1..(i - 1) : reqs[h].log[j].type = "save"

-----------------------------------------------------------------------------
(* Manager operations: clear, create, switch *)

\* a history of exactly one message holding exactly one SystemPromptPart
OneSystemPrompt(history) ==
    /\ Len(history) = 1
    /\ history[1].kind = "request"
    /\ Len(history[1].parts) = 1
    /\ history[1].parts[1].part_kind = "system-prompt"

\* the row a save of conversation object conv writes, given the table before
RowOf(conv, dbX) == IF conv.id # 0 THEN conv.id ELSE NextId(dbX)

\* the step saved the conversation that was active before it and released its
\* agent: its row holds its history, and the object, where a handler still
\* refers to it, has no agent
OldSavedAndReleased ==
    cur # 0 =>
        LET oid == RowOf(objs[cur], db) IN
        /\ oid \in DOMAIN db'
        /\ db'[oid].messages_json = to_json(objs[cur].history)
        /\ cur \in Live(0, reqs) =>
              /\ cur \in DOMAIN objs'
              /\ objs'[cur] = [objs[cur] EXCEPT !.id = oid, !.agent = FALSE]

\* C11: clear() on an active, stored conversation that has a configured
\* system prompt leaves a history of exactly one message holding exactly one
\* SystemPromptPart, in memory and at rest, and the version at rest is the
\* version before plus 1.
C11_ClearSeedsAndBumps ==
    [][\A f \in BOOLEAN :
          (/\ ClearConversation(f, TRUE)
           /\ objs[cur].system_prompt_filename # ""
           /\ objs[cur].id \in DOMAIN db)
          => LET id == objs[cur].id IN
             /\ OneSystemPrompt(objs'[cur].history)
             /\ OneSystemPrompt(from_db_model(db'[id], id).history)
             /\ db'[id].version = db[id].version + 1]_vars

\* C12: clear() leaves the identity, the model and the system-prompt
\* reference of the active conversation as they were and adds no row to the
\* store.
C12_ClearKeepsIdentity ==
    [][\A f \in BOOLEAN, ok \in BOOLEAN :
          ClearConversation(f, ok) =>
             /\ objs'[cur].id = objs[cur].id
             /\ objs'[cur].model = objs[cur].model
             /\ objs'[cur].system_prompt_filename = objs[cur].system_prompt_filename
             /\ DOMAIN db' = DOMAIN db]_vars

\* C13: a create that returns has saved the conversation that was active and
\* released its agent, and has installed a new conversation object that was
\* persisted exactly once (one new row, still at its initial version): the
\* active conversation has an identity, and its history, in memory and at
\* rest, is empty or is exactly one seeded SystemPromptPart message.
C13_CreateSavesThenInstalls ==
    [][\A m \in Models, p \in PromptNames, f \in BOOLEAN :
          NewConversation(m, p, f, TRUE, TRUE) =>
             /\ OldSavedAndReleased
             /\ cur' # 0
             /\ cur' \notin Live(0, reqs)
             /\ LET new == objs'[cur'] IN
                /\ new.id # 0
                /\ new.id \in DOMAIN db' \ DOMAIN db
                /\ cur # 0 => new.id # RowOf(objs[cur], db)
                /\ Cardinality(DOMAIN db' \ DOMAIN db) =
                      1 + B2N(cur # 0 /\ objs[cur].id = 0)
                /\ db'[new.id].version = DefaultRowVersion
                /\ new.model = m
                /\ new.history = <<>> \/ OneSystemPrompt(new.history)
                /\ from_db_model(db'[new.id], new.id).history = new.history]_vars

\* a create has returned while a conversation was active: two creates, and
\* nothing else, have been done
C13_Witness ==
    /\ work = 2
    /\ Cardinality(DOMAIN db) = 2
    /\ cur # 0
    /\ objs[cur].id = 2

\* C14: a switch to a stored id has saved the conversation that was active
\* and released its agent, and the target is the active conversation with
\* the history and the version stored at rest for that id.
C14_SwitchSavesThenLoads ==
    [][\A id \in DOMAIN db :
          SwitchTo(id, TRUE) =>
             /\ OldSavedAndReleased
             /\ cur' # 0
             /\ cur' \notin Live(0, reqs)
             /\ objs'[cur'].id = id
             /\ objs'[cur'].history = from_db_model(db'[id], id).history
             /\ objs'[cur'].version = db'[id].version
             /\ ~objs'[cur'].agent]_vars

\* a switch to a stored id has succeeded: the active conversation is neither
\* the one created last nor one without a row
C14_Witness ==
    /\ cur # 0
    /\ objs[cur].id # 0
    /\ objs[cur].id # LastRow(db)

\* C15: a switch to an id that is not in the store leaves the active
\* conversation the object it was, with the same id and the same history.
C15_SwitchNotFound ==
    [][\A id \in 1..NextId(db), ok \in BOOLEAN :
          (SwitchTo(id, ok) /\ id \notin DOMAIN db) =>
             /\ cur' = cur
             /\ cur # 0 =>
                   /\ objs'[cur].id = objs[cur].id
                   /\ objs'[cur].history = objs[cur].history]_vars

\* C20: a streaming turn that ended with the error frame sent exactly one
\* error frame, as its last frame, after the frames forwarded before the
\* failure, and no history, in memory or at rest, holds a message of the turn.
C20_ErrorKeepsFramesOnly ==
    \A h \in Handlers :
        LET r == reqs[h] IN
        (r.kind = "stream" /\ "error" \in Types(r.log)) =>
            /\ Count(r.log, "error") = 1
            /\ Frames(r.log)[Len(Frames(r.log))].type = "error"
            /\ ~InMemory(r.turn)
            /\ ~Persisted(r.turn)

-----------------------------------------------------------------------------
(* Streaming turns: tool events, order, text *)

\* what a frame, an event, a part of a message is about: text and its
\* content, or a tool call or tool return and its id
FrameMark(f) ==
    IF f.type = "text_delta" THEN <<"text", f.content>> ELSE <<f.type, f.tool_call_id>>
EventMark(e) ==
    IF e.kind = "text" THEN <<"text", e.content>>
    ELSE IF e.kind = "tool_call" THEN <<"tool_call", e.part.tool_call_id>>
    ELSE <<"tool_return", e.result.tool_call_id>>
PartMark(p) ==
    IF p.part_kind = "tool-call" THEN <<"tool_call", p.tool_call_id>>
    ELSE IF p.part_kind = "tool-return" THEN <<"tool_return", p.tool_call_id>>
    ELSE <<p.part_kind, p.content>>

\* the frames forwarded for generation events, in the order they were sent
IsForwarded(f) == f.type \in {"text_delta", "tool_call", "tool_return"}
ForwardedMarks(log) ==
    LET fs == SelectSeq(log, IsForwarded) IN [i \in 1..Len(fs) |-> FrameMark(fs[i])]
EventMarks(evs) == [i \in 1..Len(evs) |-> EventMark(evs[i])]

\* marks with the empty text left out and text that follows text joined to it
HasText(m) == m[1] # "text" \/ m[2] # ""
RECURSIVE JoinNext(_)
JoinNext(marks) ==
    IF Len(marks) <= 1
    THEN marks
    ELSE LET rest == JoinNext(Tail(marks))
         IN IF marks[1][1] = "text" /\ rest[1][1] = "text"
            THEN <<<<"text", marks[1][2] \o rest[1][2]>>>> \o Tail(rest)
            ELSE <<marks[1]>> \o rest
JoinText(marks) == JoinNext(SelectSeq(marks, HasText))

\* the parts of the messages of turn t in a history, without its user prompt
HasUserPrompt(msg) ==
    \E k \in 1..Len(msg.parts) : msg.parts[k].part_kind = "user-prompt"
RECURSIVE PartsFrom(_, _)
PartsFrom(history, i) ==
    IF i > Len(history) \/ HasUserPrompt(history[i])
    THEN <<>>
    ELSE history[i].parts \o PartsFrom(history, i + 1)
TurnParts(history, t) ==
    LET i == CHOOSE k \in 1..Len(history) :
                \E j \in 1..Len(history[k].parts) :
                    /\ history[k].parts[j].part_kind = "user-prompt"
                    /\ history[k].parts[j].content = UserMessage(t)
    IN PartsFrom(history, i + 1)
PartMarks(parts) == [i \in 1..Len(parts) |-> PartMark(parts[i])]

\* the ids of the tool calls among the first n events
CallsBefore(evs, n) ==
    {evs[j].part.tool_call_id : j \in {k \in 1..n : evs[k].kind = "tool_call"}}

\* C16: no tool_return frame is sent for an id for which no tool_call frame
\* was sent before it in the turn, and a turn in which a tool result arrived
\* for an id that no earlier tool call had is not committed.
C16_UnmatchedToolReturn ==
    \A h \in Handlers :
        LET r == reqs[h] IN
        /\ \A i \in 1..Len(r.log) :
              r.log[i].type = "tool_return" =>
                  \E j \in 1..(i - 1) :
                      /\ r.log[j].type = "tool_call"
                      /\ r.log[j].tool_call_id = r.log[i].tool_call_id
        /\ \A i \in 1..Len(r.events) :
              (/\ r.events[i].kind = "tool_result"
               /\ r.events[i].result.tool_call_id \notin CallsBefore(r.events, i - 1))
              => "append" \notin Types(r.log)

\* C17: the args of every tool_call frame is a mapping.
C17_ArgsIsMapping ==
    \A h \in Handlers :
        \A i \in 1..Len(reqs[h].log) :
            reqs[h].log[i].type = "tool_call" => reqs[h].log[i].args.type = "dict"

TextOf(marks) ==
    LET ts == SelectSeq(marks, LAMBDA m : m[1] = "text") IN [i \in 1..Len(ts) |-> ts[i][2]]
RECURSIVE Concat(_)
Concat(strings) ==
    IF strings = <<>> THEN "" ELSE strings[1] \o Concat(Tail(strings))

\* C19: the contents of the text_delta frames of a streaming turn are the
\* pieces of text that arrived, each once and in the order of arrival, so that
\* their concatenation is the concatenation of the pieces; the text of the
\* committed turn is that concatenation as well.
C19_TextFidelity ==
    \A h \in Handlers :
        LET r == reqs[h] IN
        r.kind = "stream" =>
            /\ TextOf(ForwardedMarks(r.log)) = TextOf(EventMarks(r.events))
            /\ Concat(TextOf(ForwardedMarks(r.log))) = r.text
            /\ "save" \in Types(r.log) =>
                  Concat(TextOf(PartMarks(TurnParts(objs[r.conv].history, r.turn)))) = r.text

\* TextDelta("Hel"), TextDelta("lo") has been forwarded and committed as "Hello"
C19_Witness ==
    \E h \in Handlers :
        /\ TextOf(ForwardedMarks(reqs[h].log)) = <<"Hel", "lo">>
        /\ "done" \in Types(reqs[h].log)
        /\ PartMarks(TurnParts(objs[reqs[h].conv].history, reqs[h].turn))
              = <<<<"text", "Hello">>>>

-----------------------------------------------------------------------------
(* Histories: tool returns, growth, the stored form *)

IsPrefix(a, b) == Len(a) <= Len(b) /\ SubSeq(b, 1, Len(a)) = a

\* the parts of a history, in order
RECURSIVE AllParts(_)
AllParts(history) ==
    IF history = <<>> THEN <<>> ELSE history[1].parts \o AllParts(Tail(history))

\* C21: in every history in memory, every ToolReturnPart has exactly one
\* ToolCallPart with its tool_call_id before it.
C21_ToolReturnsMatched ==
    \A o \in DOMAIN objs :
        LET ps == AllParts(objs[o].history) IN
        \A i \in 1..Len(ps) :
            ps[i].part_kind = "tool-return" =>
                Cardinality({j \in 1..(i - 1) :
                                /\ ps[j].part_kind = "tool-call"
                                /\ ps[j].tool_call_id = ps[i].tool_call_id}) = 1

C25_CommitSavesExtended ==
    [][\A h \in Handlers, ok \in BOOLEAN :
          (StreamEnd(h, ok) /\ "done" \in Types(reqs'[h].log))
          => \E id \in DOMAIN db' :
                reqs[h].turn \in TurnsOf(from_db_model(db'[id], id).history)]_vars

\* C26: every listener receives the events in the order in which their
\* publishes started (the order in which the first listener received them).
C26_FanOutInPublishOrder ==
    \A i \in 1..Len(listeners) :
        LET mine == received[listeners[i]]
            first == received[listeners[1]]
        IN \A a \in 1..Len(mine), b \in 1..Len(mine) :
              a < b =>
                  \A x \in 1..Len(first), y \in 1..Len(first) :
                      (first[x] = mine[a] /\ first[y] = mine[b]) => x < y

\* C27: a streaming response has at most one terminal frame (done or error)
\* and no frame after it; one that is over and was not cancelled has exactly
\* one; and done is sent only for a turn that was appended and saved.
C27_OneTerminalFrame ==
    \A h \in Handlers :
        LET r == reqs[h]
            fs == Frames(r.log)
        IN r.kind = "stream" =>
            /\ Count(r.log, "done") + Count(r.log, "error") <= 1
            /\ \A i \in 1..Len(fs) : fs[i].type \in {"done", "error"} => i = Len(fs)
            /\ (r.pc = "finished" /\ "cancelled" \notin Types(r.log))
               => Count(r.log, "done") + Count(r.log, "error") = 1
            /\ "done" \in Types(r.log)
               => /\ {"append", "save"} \subseteq Types(r.log)
                  /\ "save_failed" \notin Types(r.log)

\* a streaming turn whose save failed has ended with the error frame
C27_Witness ==
    \E h \in Handlers :
        /\ reqs[h].kind = "stream"
        /\ reqs[h].pc = "finished"
        /\ "save_failed" \in Types(reqs[h].log)
        /\ Frames(reqs[h].log)[Len(Frames(reqs[h].log))].type = "error"

\* C28: a non-streaming turn that failed before its append did nothing but
\* answer with the error: no history in memory or at rest holds a message of
\* it, no listener received an event of it, and its conversation object is
\* still there.
C28_FailedChatLeavesNothing ==
    \A h \in Handlers :
        LET r == reqs[h] IN
        (r.kind = "chat" /\ "http_error" \in Types(r.log) /\ "append" \notin Types(r.log))
        => /\ Types(r.log) = {"http_error"}
           /\ ~InMemory(r.turn)
           /\ ~Persisted(r.turn)
           /\ r.conv \in DOMAIN objs
           /\ \A cb \in DOMAIN received : \A k \in 1..Len(received[cb]) :
                 r.turn \notin TurnsOf(validate_python(received[cb][k].new_messages))

\* generation failed in one chat turn, and another chat turn on the same
\* conversation was answered
C28_Witness ==
    /\ reqs["h1"].kind = "chat"
    /\ Types(reqs["h1"].log) = {"http_error"}
    /\ reqs["h2"].kind = "chat"
    /\ "response" \in Types(reqs["h2"].log)
    /\ reqs["h2"].conv = reqs["h1"].conv

\* C30: no text_delta frame is sent for an empty piece of text.
C30_EmptyDeltaNoOp ==
    \A h \in Handlers :
        \A i \in 1..Len(reqs[h].log) :
            reqs[h].log[i].type = "text_delta" => reqs[h].log[i].content # ""

-----------------------------------------------------------------------------
(* The MCP chat tool; deltas of tool-call args *)

\* C24: the conversation that the chat tool of the MCP server starts with
\* new_conversation=true, a model and a system prompt uses that model and
\* that system prompt.
C24_McpNewUsesModelAndPrompt ==
    [][\A m \in Models, p \in PromptNames \ {""}, f \in BOOLEAN :
          McpNewConversation(m, p, f, TRUE, TRUE) =>
             /\ objs'[cur'].model = m
             /\ objs'[cur'].system_prompt_filename = p
             /\ f => OneSystemPrompt(objs'[cur'].history)]_vars

\* C29: a delta of the args of a tool call leaves every history as it is and
\* one more frame is sent to the viewer for it.
C29_ArgsDeltaForwarded ==
    [][\A h \in Handlers :
          StreamToolArgsDelta(h) =>
             /\ objs' = objs
             /\ db' = db
             /\ Len(Frames(reqs'[h].log)) = Len(Frames(reqs[h].log)) + 1]_vars

-----------------------------------------------------------------------------
(* Start-up, and the requests that read or are refused *)

\* the id of the active conversation (0: none)
CurId == IF cur = 0 THEN 0 ELSE objs[cur].id

\* the text of the row is not what to_db_model writes for any history
Malformed(db_model) == Damage(db_model) # "none"

\* the last n elements of a sequence
LastN(seq, n) ==
    SubSeq(seq, (IF Len(seq) - n > 0 THEN Len(seq) - n ELSE 0) + 1, Len(seq))

\* C31: loading a conversation whose stored history text is malformed fails
\* and does not install it: a start-up whose most recent row is malformed
\* fails with no active conversation, and a switch to a malformed row leaves
\* the conversation that was active in place.
C31_MalformedNotInstalled ==
    [][/\ (Lifespan /\ DOMAIN db # {} /\ \A r \in MostRecent(db) : Malformed(db[r])) =>
              (lifespan' = "failed" /\ cur' = 0)
       /\ \A id \in DOMAIN db :
              (SwitchTo(id, TRUE) /\ Malformed(db[id]) /\ CurId # id) =>
                  CurId' = CurId]_vars

\* C32: load_most_recent on an empty store leaves no active conversation;
\* otherwise the conversation it installs is a stored one with the latest
\* creation time, with the id, model, history and version of its row, and it
\* installs one whenever the text of those rows is well formed.
C32_LoadMostRecent ==
    [][Lifespan =>
          /\ DOMAIN db = {} => (lifespan' = "serving" /\ cur' = 0)
          /\ (DOMAIN db # {} /\ lifespan' = "serving") =>
                /\ cur' # 0
                /\ \E r \in MostRecent(db) :
                      /\ objs'[cur'].id = r
                      /\ objs'[cur'].model = db[r].model
                      /\ objs'[cur'].version = db[r].version
                      /\ to_json(objs'[cur'].history) = db[r].messages_json
          /\ (DOMAIN db # {} /\ \A r \in MostRecent(db) : ~Malformed(db[r])) =>
                lifespan' = "serving"]_vars

\* start-up has loaded the first row of two, the one created later, with its
\* turn
C32_Witness ==
    /\ lifespan = "serving"
    /\ work = 0
    /\ Len(db) = 2
    /\ CreatedAt(db, 1) > CreatedAt(db, 2)
    /\ cur # 0
    /\ objs[cur].id = 1
    /\ Len(objs[cur].history) > 1

\* C35: a chat or chat/stream request that arrives while no conversation is
\* active is answered with HTTP 400 and nothing else happens: no conversation
\* appears, nothing is stored, no listener is invoked.
C35_NoConversationRejected ==
    [][\A h \in Handlers :
          (cur = 0 /\ reqs'[h] # reqs[h] /\ reqs'[h].kind \in {"chat", "stream"}) =>
             /\ reqs'[h].pc = "finished"
             /\ reqs'[h].log = <<Entry("http_error", "400")>>
             /\ <<db, objs, cur, listeners, received, turnSeq, lastSave>>' =
                <<db, objs, cur, listeners, received, turnSeq, lastSave>>]_vars

\* a chat/stream request was refused, after another request, on a server that
\* started on an empty store
C35_Witness ==
    /\ lifespan = "serving"
    /\ db = <<>>
    /\ cur = 0
    /\ work = 2
    /\ reqs["h1"].kind = "stream"
    /\ reqs["h1"].log = <<Entry("http_error", "400")>>

\* C36: GET conversation with limit n reports the messages made from the
\* last n messages of the history, none for n = 0, and the length of the
\* whole history as total_messages.
C36_LimitTakesLastN ==
    [][\A h \in Handlers, n \in Limits :
          (GetConversation(h, n) /\ cur # 0) =>
             /\ reqs'[h].log[1].type = "conversation"
             /\ reqs'[h].log[1].messages = api_messages(LastN(objs[cur].history, n))
             /\ reqs'[h].log[1].total_messages = Len(objs[cur].history)]_vars

\* C37: GET conversation while no conversation is active is answered with an
\* empty message list and total_messages 0, not with an error.
C37_NoConversationEmptyList ==
    [][\A h \in Handlers, n \in Limits :
          (GetConversation(h, n) /\ cur = 0) =>
             /\ reqs'[h].log[1].type = "conversation"
             /\ reqs'[h].log[1].messages = <<>>
             /\ reqs'[h].log[1].total_messages = 0]_vars

-----------------------------------------------------------------------------
(* The tool calls of a chat response *)

\* the tool_calls of the response a chat request got (None is the empty list)
ResponseToolCalls(log) ==
    LET e == log[Len(log)]
    IN IF "tool_calls" \in DOMAIN e THEN e.tool_calls ELSE <<>>

\* the ids of the calls the run made that got a return, in the order of the
\* calls
RECURSIVE ReturnedCallIds(_, _)
ReturnedCallIds(evs, returned) ==
    IF evs = <<>> THEN <<>>
    ELSE IF evs[1].kind = "tool_call" /\ evs[1].part.tool_call_id \in returned
         THEN <<evs[1].part.tool_call_id>> \o ReturnedCallIds(Tail(evs), returned)
         ELSE ReturnedCallIds(Tail(evs), returned)

\* C38: the tool_calls of a chat response are the calls of the turn that got
\* a return, in the order they were made, each with the return that carries
\* its tool_call_id; a call with no return is left out.
C38_ResponseToolCalls ==
    \A h \in Handlers :
        (reqs[h].kind = "chat" /\ reqs[h].pc = "finished"
            /\ "response" \in Types(reqs[h].log)) =>
           LET tcs == ResponseToolCalls(reqs[h].log)
           IN /\ [i \in 1..Len(tcs) |-> tcs[i].call.tool_call_id] =
                    ReturnedCallIds(reqs[h].events, ReturnedIds(h))
              /\ \A i \in 1..Len(tcs) :
                    /\ tcs[i].returned
                    /\ tcs[i].return.tool_call_id = tcs[i].call.tool_call_id

\* a response with one tool call, the second of two the turn made: the first
\* got no return
C38_Witness ==
    \E h \in Handlers :
        /\ reqs[h].kind = "chat"
        /\ reqs[h].pc = "finished"
        /\ "response" \in Types(reqs[h].log)
        /\ CalledIds(h) = {"id1", "id2"}
        /\ ReturnedIds(h) = {"id2"}
        /\ reqs[h].events[1].part.tool_call_id = "id1"
        /\ Len(ResponseToolCalls(reqs[h].log)) = 1

-----------------------------------------------------------------------------
(* The agent manager *)

\* C33: a failed connection to the tool servers while an agent is created
\* ends the call with the exception, and the agent of that call is never in
\* the agent table; every model with an agent context has an agent.
C33_ConnectFailureFatal ==
    /\ \A k \in DOMAIN agent_manager.calls :
          agent_manager.calls[k].connect_failed =>
             /\ agent_manager.calls[k].pc = "raised"
             /\ \A m \in DOMAIN agent_manager.agents : agent_manager.agents[m] # k
    /\ DOMAIN agent_manager.agent_contexts \subseteq DOMAIN agent_manager.agents

\* the connection failed in initialize, at startup: the call raised and there
\* is no agent
C33_Witness ==
    /\ agent_manager.calls # <<>>
    /\ agent_manager.calls[1].op = "initialize"
    /\ agent_manager.calls[1].connect_failed
    /\ agent_manager.calls[1].pc = "raised"
    /\ DOMAIN agent_manager.agents = {}

\* call k is a set_model that raised
SetModelRaised(k) ==
    /\ agent_manager.calls[k].op = "set_model"
    /\ agent_manager.calls[k].pc = "raised"

\* C34: when a set_model call raises, current_model is what it was before
\* the call, and once initialize has succeeded current_model names a model
\* that has an agent whenever no call is under way.
C34_SetModelKeepsOnFailure ==
    /\ \A k \in DOMAIN agent_manager.calls :
          (SetModelRaised(k) /\ k = Len(agent_manager.calls)) =>
             agent_manager.current_model = agent_manager.calls[k].before
    /\ (Initialized /\ \A k \in DOMAIN agent_manager.calls :
                          agent_manager.calls[k].pc # "connecting") =>
          agent_manager.current_model \in DOMAIN agent_manager.agents

-----------------------------------------------------------------------------
(* The event-row store *)

\* C39: in the event-row store the events of every conversation have the
\* positions 0, 1, ..., n-1 in the order they were inserted, whatever calls
\* and restarts came before.
C39_PositionsAreDense ==
    \A c \in DOMAIN event_store.conversations :
        \A i \in 1..Len(EventsOf(event_store, c)) :
            EventsOf(event_store, c)[i].position = i - 1

\* the first conversation got an event, the second one too after a clear,
\* and then the first again: after a restart get_current_conversation resumed
\* it (it has the later creation time) at position 1
C39_Witness ==
    /\ Len(event_store.events) = 3
    /\ [i \in 1..3 |-> event_store.events[i].conversation_id] = <<1, 2, 1>>
    /\ event_store.events[3].position = 1
    /\ event_store.current_conversation_id = 1

\* C40: clear_conversation of the event-row store starts a new conversation:
\* the current conversation then has an id no conversation had before and
\* position 0, and the conversations and events stored before are all still
\* there, unchanged.
C40_ClearStartsFresh ==
    [][\A t \in EventTimes :
          (event_store' = clear_conversation(event_store, t, TRUE)
              /\ event_store' # event_store) =>
             /\ event_store'.current_conversation_id \notin
                   (DOMAIN event_store.conversations \cup {0})
             /\ event_store'.event_position = 0
             /\ event_store'.events = event_store.events
             /\ SubSeq(event_store'.conversations, 1, Len(event_store.conversations)) =
                   event_store.conversations]_vars

\* a second conversation is current, with no event yet, and the first
\* conversation has its events
C40_Witness ==
    /\ Len(event_store.conversations) = 2
    /\ event_store.current_conversation_id = 2
    /\ event_store.event_position = 0
    /\ Len(EventsOf(event_store, 1)) >= 1
    /\ EventsOf(event_store, 2) = <<>>

====
